---- MODULE Spec2Model ----
(***************************************************************************)
(* A model of aws-tool (awscli_tool): the interactive session of main.py   *)
(* with its ECS / EC2 / Service Catalog / API Gateway wizards, the direct  *)
(* subcommands, the log retrieval policy of commands/ecs.py and the log    *)
(* formatter of utils/log_formatter.py.                                    *)
(*                                                                         *)
(* Six specifications share the module:                                   *)
(*   Spec      one run of the program: argv, profile selection, SSO login, *)
(*             then the main menu loop or one direct subcommand.  One step *)
(*             is one prompt answered or one provider call returned.       *)
(*   SpecLogs  the log window policy (view_logs_action and view_logs) over *)
(*             a log source that grows.                                    *)
(*   SpecFmt   the log formatter applied to messages built from fragments. *)
(*   SpecClients  the client factory of utils/aws_client.py.               *)
(*   SpecTime  format_timestamp applied to integer timestamps.             *)
(*   SpecS3    the bucket browser of commands/s3.py over buckets that      *)
(*             receive objects.                                            *)
(***************************************************************************)
EXTENDS Integers, Sequences, FiniteSets, TLC

VARIABLES
    \* ---- the program run (Spec)
    cmd,               \* the invoked subcommand; "wizard" when there is none
    yes,               \* the --yes flag of a direct subcommand
    profile,           \* the --profile option (None when absent)
    pc,                \* where the run is: the prompt shown or the call in flight
    selected_profile,  \* main.py: selected_profile
    validated,         \* profiles for which ensure_sso_login has returned True
    client,            \* the profile the wizard's boto3 clients were built for
    loc,               \* the locals of the wizard and action frames
    lastCall,          \* the provider request issued by the last step
    outcome,           \* "running", "exit0", "exit1" or "crashed"
    \* ---- the log window (SpecLogs)
    window,            \* the events the log source holds in the lookback window
    view,              \* the last log view: its inputs and what it displayed
    \* ---- the log formatter (SpecFmt)
    message,           \* the raw message of the event at hand
    entry,             \* what format_log_entry made of it
    \* ---- the client factory (SpecClients)
    sessions,          \* the lru_cache of get_session, least recently used first
    issued,            \* the clients get_client has returned, in order
    \* ---- the timestamp formatter (SpecTime)
    timestamp,         \* the timestamp of the event at hand
    stamp,             \* what format_timestamp made of it
    \* ---- the bucket browser (SpecS3)
    buckets,           \* the names of the account's buckets
    objects,           \* the objects the buckets hold: records of bucket and key
    current_bucket,    \* the bucket being browsed, None at the bucket list
    current_prefix,    \* the prefix being browsed
    display_path,      \* the bucket and prefix the last listing was made for
    selection,         \* the last answer to "Navegar:"
    s3pc               \* where the browser stands

navVars == <<cmd, yes, profile, pc, selected_profile, validated, client, loc,
             lastCall, outcome>>
logVars == <<window, view>>
fmtVars == <<message, entry>>
cliVars == <<sessions, issued>>
timeVars == <<timestamp, stamp>>
s3Vars == <<buckets, objects, current_bucket, current_prefix, display_path,
            selection, s3pc>>
vars == <<navVars, logVars, fmtVars, cliVars, timeVars, s3Vars>>

None == "None"

(***************************************************************************)
(* Characters and strings.  A string is a sequence of one-character        *)
(* strings, so that comparison, case folding and searching are computed.   *)
(***************************************************************************)
LowerChars == <<"a","b","c","d","e","f","g","h","i","j","k","l","m",
                "n","o","p","q","r","s","t","u","v","w","x","y","z">>
UpperChars == <<"A","B","C","D","E","F","G","H","I","J","K","L","M",
                "N","O","P","Q","R","S","T","U","V","W","X","Y","Z">>
Digits == {"0","1","2","3","4","5","6","7","8","9"}

IsLower(c) == \E i \in 1..26 : LowerChars[i] = c
IsUpper(c) == \E i \in 1..26 : UpperChars[i] = c

\* str.upper() on one character
UpperChar(c) ==
    IF IsLower(c) THEN UpperChars[CHOOSE i \in 1..26 : LowerChars[i] = c] ELSE c

\* str.upper()
upper(s) == [i \in 1..Len(s) |-> UpperChar(s[i])]

\* str.strip() restricted to blanks
RECURSIVE lstrip(_)
lstrip(s) == IF s # <<>> /\ Head(s) = " " THEN lstrip(Tail(s)) ELSE s
RECURSIVE rstrip(_)
rstrip(s) ==
    IF s # <<>> /\ s[Len(s)] = " " THEN rstrip(SubSeq(s, 1, Len(s) - 1)) ELSE s
strip(s) == rstrip(lstrip(s))

\* s[i:] starts with the string w (i is 1-based)
StartsAt(s, i, w) ==
    /\ i >= 1
    /\ i + Len(w) - 1 <= Len(s)
    /\ \A k \in 1..Len(w) : s[i + k - 1] = w[k]

\* Python's  w in s
Contains(s, w) == \E i \in 1..(Len(s) + 1) : StartsAt(s, i, w)

(***************************************************************************)
(* utils/log_formatter.py: the level heuristics.  re.search is computed on *)
(* the characters: the leftmost position at which the pattern matches, and *)
(* group(1) of that match.                                                 *)
(***************************************************************************)
S_ERROR     == <<"E","R","R","O","R">>
S_WARN      == <<"W","A","R","N">>
S_WARNING   == <<"W","A","R","N","I","N","G">>
S_INFO      == <<"I","N","F","O">>
S_DEBUG     == <<"D","E","B","U","G">>
S_TRACE     == <<"T","R","A","C","E">>
S_EXCEPTION == <<"E","X","C","E","P","T","I","O","N">>
S_FAILED    == <<"F","A","I","L","E","D">>

\* the keys of LEVEL_COLORS
LEVEL_COLORS == {S_ERROR, S_WARN, S_WARNING, S_INFO, S_DEBUG, S_TRACE}

\* the five levels of a FormattedLogEntry
Levels == {S_ERROR, S_WARN, S_INFO, S_DEBUG, S_TRACE}

\* \w and \s
IsWordChar(c) == IsLower(c) \/ IsUpper(c) \/ c \in Digits \/ c = "_"
IsSpace(c) == c \in {" ", "\t", "\n"}

\* a literal under re.IGNORECASE
StartsAtCI(s, i, w) ==
    /\ i >= 1
    /\ i + Len(w) - 1 <= Len(s)
    /\ \A k \in 1..Len(w) : UpperChar(s[i + k - 1]) = UpperChar(w[k])

\* \s* from i: the index after the blanks
RECURSIVE SkipSpaces(_, _)
SkipSpaces(s, i) ==
    IF i <= Len(s) /\ IsSpace(s[i]) THEN SkipSpaces(s, i + 1) ELSE i

\* \w* from i: the index after the word characters
RECURSIVE WordEnd(_, _)
WordEnd(s, i) ==
    IF i <= Len(s) /\ IsWordChar(s[i]) THEN WordEnd(s, i + 1) ELSE i

NoMatch == [found |-> FALSE, group |-> <<>>]
Match(g) == [found |-> TRUE, group |-> g]

\* "key"\s*:\s*"(\w+)"  matched at i; key carries its quotes
FieldMatchAt(s, i, key) ==
    IF ~StartsAtCI(s, i, key) THEN NoMatch
    ELSE LET b == SkipSpaces(s, i + Len(key)) IN
         IF b > Len(s) \/ s[b] # ":" THEN NoMatch
         ELSE LET c == SkipSpaces(s, b + 1) IN
              IF c > Len(s) \/ s[c] # "\"" THEN NoMatch
              ELSE LET d == WordEnd(s, c + 1) IN
                   IF d = c + 1 \/ d > Len(s) \/ s[d] # "\"" THEN NoMatch
                   ELSE Match(SubSeq(s, c + 1, d - 1))

K_level    == <<"\"","l","e","v","e","l","\"">>
K_severity == <<"\"","s","e","v","e","r","i","t","y","\"">>

LevelFieldAt(s, i) == FieldMatchAt(s, i, K_level)
SeverityFieldAt(s, i) == FieldMatchAt(s, i, K_severity)

\* \[(\w+)\]  matched at i
BracketAt(s, i) ==
    IF i > Len(s) \/ s[i] # "[" THEN NoMatch
    ELSE LET d == WordEnd(s, i + 1) IN
         IF d = i + 1 \/ d > Len(s) \/ s[d] # "]" THEN NoMatch
         ELSE Match(SubSeq(s, i + 1, d - 1))

\* \b between s[i-1] and s[i]
WordBoundary(s, i) ==
    LET before == i > 1 /\ i - 1 <= Len(s) /\ IsWordChar(s[i - 1])
        after  == i >= 1 /\ i <= Len(s) /\ IsWordChar(s[i])
    IN before # after

\* the alternation, in the pattern's order
LevelWords == <<S_ERROR, S_WARN, S_WARNING, S_INFO, S_DEBUG, S_TRACE>>

\* \b(ERROR|WARN|WARNING|INFO|DEBUG|TRACE)\b  matched at i
BareWordAt(s, i) ==
    LET fits(k) == /\ StartsAtCI(s, i, LevelWords[k])
                   /\ WordBoundary(s, i + Len(LevelWords[k]))
        ks == {k \in 1..Len(LevelWords) : fits(k)}
    IN IF ~WordBoundary(s, i) \/ ks = {} THEN NoMatch
       ELSE LET k == CHOOSE x \in ks : \A y \in ks : x <= y
            IN Match(SubSeq(s, i, i + Len(LevelWords[k]) - 1))

\* LEVEL_PATTERNS, in order: pattern n matched at i
PatternAt(s, i, n) ==
    CASE n = 1 -> LevelFieldAt(s, i)
      [] n = 2 -> SeverityFieldAt(s, i)
      [] n = 3 -> BracketAt(s, i)
      [] n = 4 -> BareWordAt(s, i)

\* re.search: the match at the leftmost position that has one
PatternSearch(s, n) ==
    LET hits == {i \in 1..Len(s) : PatternAt(s, i, n).found} IN
    IF hits = {} THEN NoMatch
    ELSE PatternAt(s, CHOOSE i \in hits : \A j \in hits : i <= j, n)

NumPatterns == 4

\* what the default would be if WARN were looked for first
DefaultLevelWarnFirst(message_upper) ==
    IF Contains(message_upper, S_WARN) THEN S_WARN
    ELSE IF \/ Contains(message_upper, S_ERROR)
            \/ Contains(message_upper, S_EXCEPTION)
            \/ Contains(message_upper, S_FAILED)
    THEN S_ERROR
    ELSE S_INFO

\* the content-based default of extract_log_level
DefaultLevel(message_upper) ==
    IF \/ Contains(message_upper, S_ERROR)
       \/ Contains(message_upper, S_EXCEPTION)
       \/ Contains(message_upper, S_FAILED)
    THEN S_ERROR
    ELSE IF Contains(message_upper, S_WARN) THEN S_WARN ELSE S_INFO

\* what one pattern settles: its first match, upper-cased, when that is a key
\* of LEVEL_COLORS (the WARNING -> WARN mapping comes after that test)
PatternLevel(s, n) ==
    LET m == PatternSearch(s, n)
        level == upper(m.group)
    IN IF ~m.found THEN NoMatch
       ELSE IF level \in LEVEL_COLORS THEN Match(level)
       ELSE IF level = S_WARNING THEN Match(S_WARN)
       ELSE NoMatch

RECURSIVE ExtractFrom(_, _)
ExtractFrom(s, n) ==
    IF n > NumPatterns THEN DefaultLevel(upper(s))
    ELSE LET r == PatternLevel(s, n) IN
         IF r.found THEN r.group ELSE ExtractFrom(s, n + 1)

extract_log_level(msg) == ExtractFrom(msg, 1)

(***************************************************************************)
(* json.loads on the characters.  A JSON value is a record: its type t,    *)
(* its text s (strings and numbers) and its members kv (objects: key k and *)
(* value v; arrays: v alone).  Messages here carry no backslash and no     *)
(* control character inside a string, so a string ends at the next quote.  *)
(***************************************************************************)
JValue(t, s, kv) == [t |-> t, s |-> s, kv |-> kv]
JNull == JValue("null", <<>>, <<>>)
\* the result of a parse: the value and the index after it, or the exception
\* raised: json.JSONDecodeError for text that is not JSON, ValueError from
\* int() for an integer literal longer than the interpreter converts
ParseFail == [ok |-> FALSE, v |-> JNull, i |-> 0, err |-> "JSONDecodeError"]
ParseRaise == [ok |-> FALSE, v |-> JNull, i |-> 0, err |-> "ValueError"]
Parsed(v, i) == [ok |-> TRUE, v |-> v, i |-> i, err |-> "none"]

\* sys.int_max_str_digits is 4300; scaled here to the length of the messages
int_max_str_digits == 4

S_null == <<"n","u","l","l">>
S_true == <<"t","r","u","e">>
S_NaN == <<"N","a","N">>
S_Infinity == <<"I","n","f","i","n","i","t","y">>
S_false == <<"f","a","l","s","e">>

\* the index of the first c at or after i, Len(s) + 1 when there is none
RECURSIVE IndexFrom(_, _, _)
IndexFrom(s, c, i) ==
    IF i > Len(s) \/ s[i] = c THEN i ELSE IndexFrom(s, c, i + 1)

\* \d* from i: the index after the digits
RECURSIVE DigitsEnd(_, _)
DigitsEnd(s, i) ==
    IF i <= Len(s) /\ s[i] \in Digits THEN DigitsEnd(s, i + 1) ELSE i

ParseString(s, i) ==
    LET j == IndexFrom(s, "\"", i + 1) IN
    IF i > Len(s) \/ s[i] # "\"" \/ j > Len(s) THEN ParseFail
    ELSE Parsed(JValue("string", SubSeq(s, i + 1, j - 1), <<>>), j + 1)

\* NUMBER_RE: (-?(?:0|[1-9]\d*))(\.\d+)?([eE][-+]?\d+)?
ParseNumber(s, i) ==
    LET a == IF i <= Len(s) /\ s[i] = "-" THEN i + 1 ELSE i
        b == IF a <= Len(s) /\ s[a] = "0" THEN a + 1 ELSE DigitsEnd(s, a)
        c == IF b <= Len(s) /\ s[b] = "." /\ DigitsEnd(s, b + 1) > b + 1
             THEN DigitsEnd(s, b + 1) ELSE b
        e == IF c <= Len(s) /\ s[c] \in {"e", "E"}
             THEN IF c + 1 <= Len(s) /\ s[c + 1] \in {"-", "+"} THEN c + 2 ELSE c + 1
             ELSE c
        d == IF e > c /\ DigitsEnd(s, e) > e THEN DigitsEnd(s, e) ELSE c
    IN IF b = a THEN ParseFail
       ELSE IF d = b /\ b - a > int_max_str_digits THEN ParseRaise
       ELSE Parsed(JValue("number", SubSeq(s, i, d - 1), <<>>), d)

RECURSIVE ParseValue(_, _)
RECURSIVE ParseMembers(_, _, _)
RECURSIVE ParseElements(_, _, _)

ParseValue(s, i) ==
    IF i > Len(s) THEN ParseFail
    ELSE IF s[i] = "\"" THEN ParseString(s, i)
    ELSE IF s[i] = "{" THEN
         LET j == SkipSpaces(s, i + 1) IN
         IF j <= Len(s) /\ s[j] = "}" THEN Parsed(JValue("object", <<>>, <<>>), j + 1)
         ELSE ParseMembers(s, j, <<>>)
    ELSE IF s[i] = "[" THEN
         LET j == SkipSpaces(s, i + 1) IN
         IF j <= Len(s) /\ s[j] = "]" THEN Parsed(JValue("array", <<>>, <<>>), j + 1)
         ELSE ParseElements(s, j, <<>>)
    ELSE IF StartsAt(s, i, S_null) THEN Parsed(JNull, i + 4)
    ELSE IF StartsAt(s, i, S_true) THEN Parsed(JValue("true", <<>>, <<>>), i + 4)
    ELSE IF StartsAt(s, i, S_false) THEN Parsed(JValue("false", <<>>, <<>>), i + 5)
    ELSE IF StartsAt(s, i, S_NaN) THEN Parsed(JValue("number", S_NaN, <<>>), i + 3)
    ELSE IF StartsAt(s, i, S_Infinity) THEN Parsed(JValue("number", S_Infinity, <<>>), i + 8)
    ELSE IF s[i] = "-" /\ StartsAt(s, i + 1, S_Infinity)
         THEN Parsed(JValue("number", <<"-">> \o S_Infinity, <<>>), i + 9)
    ELSE ParseNumber(s, i)

\* "key" : value , ... }
ParseMembers(s, j, acc) ==
    LET k == ParseString(s, j) IN
    IF ~k.ok THEN ParseFail
    ELSE LET a == SkipSpaces(s, k.i) IN
         IF a > Len(s) \/ s[a] # ":" THEN ParseFail
         ELSE LET v == ParseValue(s, SkipSpaces(s, a + 1)) IN
              IF ~v.ok THEN v
              ELSE LET c == SkipSpaces(s, v.i)
                       members == Append(acc, [k |-> k.v.s, v |-> v.v])
                   IN IF c > Len(s) THEN ParseFail
                      ELSE IF s[c] = "}" THEN Parsed(JValue("object", <<>>, members), c + 1)
                      ELSE IF s[c] = "," THEN ParseMembers(s, SkipSpaces(s, c + 1), members)
                      ELSE ParseFail

\* value , ... ]
ParseElements(s, j, acc) ==
    LET v == ParseValue(s, j) IN
    IF ~v.ok THEN v
    ELSE LET c == SkipSpaces(s, v.i)
             elements == Append(acc, [k |-> <<>>, v |-> v.v])
         IN IF c > Len(s) THEN ParseFail
            ELSE IF s[c] = "]" THEN Parsed(JValue("array", <<>>, elements), c + 1)
            ELSE IF s[c] = "," THEN ParseElements(s, SkipSpaces(s, c + 1), elements)
            ELSE ParseFail

\* one document and nothing after it but blanks
json_loads(s) ==
    LET r == ParseValue(s, SkipSpaces(s, 1)) IN
    IF ~r.ok THEN r
    ELSE IF SkipSpaces(s, r.i) = Len(s) + 1 THEN r ELSE ParseFail

\* key in d, d[key]: the last member of that name is the one a dict keeps
HasKey(d, key) == \E n \in 1..Len(d.kv) : d.kv[n].k = key
GetKey(d, key) ==
    LET n == CHOOSE x \in 1..Len(d.kv) :
                 /\ d.kv[x].k = key
                 /\ \A y \in 1..Len(d.kv) : d.kv[y].k = key => y <= x
    IN d.kv[n].v

\* the index of the last c, 0 when there is none
RECURSIVE LastIndex(_, _, _)
LastIndex(s, c, i) ==
    IF i < 1 \/ s[i] = c THEN i ELSE LastIndex(s, c, i - 1)

\* parse_json_log: \{.*\} with DOTALL spans the first "{" to the last "}";
\* None is [found |-> FALSE]; only json.JSONDecodeError is caught, anything
\* else json.loads raises leaves the function (raised)
NoJson == [found |-> FALSE, data |-> JNull, raised |-> FALSE]
ParseResult(r) ==
    IF r.ok THEN [found |-> TRUE, data |-> r.v, raised |-> FALSE]
    ELSE [NoJson EXCEPT !.raised = r.err # "JSONDecodeError"]

parse_json_log(msg) ==
    LET a == IndexFrom(msg, "{", 1)
        b == LastIndex(msg, "}", Len(msg))
    IN IF a > Len(msg) \/ b < a THEN NoJson
       ELSE ParseResult(json_loads(SubSeq(msg, a, b)))

S_level == <<"l","e","v","e","l">>

\* if json_data and "level" in json_data
HasLevel(json_data) ==
    /\ json_data.found
    /\ Len(json_data.data.kv) > 0
    /\ HasKey(json_data.data, S_level)

\* json_data["level"].upper(): raised when the value has no upper()
OverrideLevel(value) ==
    [raised |-> value.t # "string",
     level  |-> IF value.t = "string" THEN upper(value.s) ELSE <<>>]

\* the level of the entry: the heuristic one, replaced by the JSON one
EntryLevel(msg, json_data) ==
    IF HasLevel(json_data) THEN OverrideLevel(GetKey(json_data.data, S_level))
    ELSE [raised |-> FALSE, level |-> extract_log_level(msg)]

\* the dict format_log_entry returns (raised: it returned nothing)
EntryOf(msg, json_data, lv) ==
    [raised |-> json_data.raised \/ lv.raised,
     level |-> IF json_data.raised THEN <<>> ELSE lv.level, message |-> strip(msg),
     json_data |-> json_data]

FormatParsed(msg, json_data) == EntryOf(msg, json_data, EntryLevel(msg, json_data))

\* format_log_entry: the entry's level, message and json_data
format_log_entry(event) == FormatParsed(event.message, parse_json_log(event.message))

(***************************************************************************)
(* format_timestamp on integer timestamps.  An integer is its sign and its *)
(* decimal digits (no leading zero); timestamp / 1000 keeps the last three *)
(* digits as the fraction.  The result is the date of the value converted, *)
(* the string of a value, or nothing when an exception went uncaught.      *)
(***************************************************************************)
Zeros(k) == [i \in 1..k |-> 0]
Number(neg, digits) == [neg |-> neg, digits |-> digits, frac |-> <<>>]
Zero == Number(FALSE, <<0>>)

\* a > b on digits
Greater(a, b) ==
    \/ Len(a) > Len(b)
    \/ /\ Len(a) = Len(b)
       /\ \E k \in 1..Len(a) : a[k] > b[k] /\ \A j \in 1..(k - 1) : a[j] = b[j]

\* 1e12
Threshold == <<1>> \o Zeros(12)

\* what the test would be with >= in place of >
AtLeastThreshold(t) == ~t.neg /\ ~Greater(Threshold, t.digits)

\* timestamp > 1e12
OverThreshold(t) == ~t.neg /\ Greater(t.digits, Threshold)

\* timestamp / 1000, for a timestamp over the threshold
Thousandth(t) ==
    [neg    |-> t.neg,
     digits |-> SubSeq(t.digits, 1, Len(t.digits) - 3),
     frac   |-> SubSeq(t.digits, Len(t.digits) - 2, Len(t.digits))]

\* datetime.fromtimestamp: the last second of year 9999 and the first of
\* year 1 bound the dates (ValueError beyond them); a value that does not
\* fit the platform's 64-bit time_t raises OverflowError
LastSecond  == <<2,5,3,4,0,2,3,0,0,7,9,9>>
FirstSecond == <<6,2,1,3,5,5,9,6,8,0,0>>
TimeTMax    == <<9,2,2,3,3,7,2,0,3,6,8,5,4,7,7,5,8,0,7>>

fromtimestamp(v) ==
    IF Greater(v.digits, TimeTMax) THEN "OverflowError"
    ELSE IF Greater(v.digits, IF v.neg THEN FirstSecond ELSE LastSecond) THEN "ValueError"
    ELSE "ok"

\* the try block: the value is rebound before it is converted, and only
\* ValueError and OSError are caught, by returning str(timestamp)
Converted(v) ==
    CASE fromtimestamp(v) = "ok"         -> [kind |-> "date", value |-> v]
      [] fromtimestamp(v) = "ValueError" -> [kind |-> "str", value |-> v]
      [] OTHER                           -> [kind |-> "raised", value |-> v]

format_timestamp(t) ==
    IF OverThreshold(t) THEN Converted(Thousandth(t)) ELSE Converted(t)

(***************************************************************************)
(* The run of the program: domains.                                        *)
(***************************************************************************)
\* SSO profiles that ~/.aws/config may hold
Profiles == {"dev", "prod"}
\* what --profile may carry: nothing, a configured name, an unknown name
ProfileArgs == Profiles \cup {None, "bogus"}
\* the profile the aws CLI falls back to when it is given no --profile
AmbientProfiles == Profiles \cup {"default"}
\* what get_sso_profiles may read from the config file
ConfigChoices == {{}, {"dev"}, Profiles}

Commands == {"wizard", "ec2 start", "ec2 stop", "ec2 reboot", "sc terminate"}

Clusters == {"c1", "c2"}
Services == {"s1", "s2"}
Instances == {"i-1", "i-2"}
InstanceStates == {"running", "stopped", "pending"}
Apis == {"api1"}

\* provisioned products: id and name
NameInstance == <<"m","y","a","p","p","-","i","n","s","t","a","n","c","e">>
NameTypo     == <<"m","y","a","p","p","-","i","n","s","t","n","a","c","e">>
NameDb       == <<"d","b">>
Provisioned == { [id |-> "pp-1", name |-> NameInstance],
                 [id |-> "pp-2", name |-> NameDb] }
NoPP == [id |-> None, name |-> <<>>]
\* what the user may type at the retype prompt
TypedNames == { NameInstance, NameTypo, NameDb, upper(NameInstance),
                NameInstance \o <<" ">>, SubSeq(NameInstance, 1, 5), <<>> }

NoCall == [api |-> "none", profile |-> "none"]
Call(api, p) == [api |-> api, profile |-> p]

\* the locals of the wizard and action frames, before any is bound
NoLocals ==
    [ cluster |-> None, service |-> None, menu_profile |-> None, tasks |-> "unset",
      filter_choice |-> None, instance |-> None, state |-> None,
      selected_pp |-> NoPP, api |-> None,
      confirm |-> "unset", confirm_name |-> <<>>,
      action |-> None, label |-> None, result |-> None, new_profile |-> None ]

(***************************************************************************)
(* config.py                                                               *)
(***************************************************************************)
\* select_profile: the values it may return, for the profiles read from the
\* config file and the name asked for
select_profile(profiles, profile_name) ==
    IF profiles = {} THEN {None}
    ELSE IF profile_name # None
         THEN (IF profile_name \in profiles THEN {profile_name} ELSE {None})
         ELSE profiles

\* ensure_sso_login: from the return codes of "aws sts get-caller-identity"
\* and "aws sso login"
ensure_sso_login(sts_rc, login_rc) ==
    IF sts_rc = 0 THEN TRUE ELSE login_rc = 0

ReturnCodes == {0, 1}

(***************************************************************************)
(* Step shapes.                                                            *)
(***************************************************************************)
NavFrame == UNCHANGED <<logVars, fmtVars, cliVars, timeVars, s3Vars>>

\* a step inside a session: it moves, rebinds locals, may issue a provider call
Step(to, newLoc, call) ==
    /\ pc' = to
    /\ loc' = newLoc
    /\ lastCall' = call
    /\ UNCHANGED <<cmd, yes, profile, selected_profile, validated, client, outcome>>
    /\ NavFrame

\* the run ends: code 0 (return / break), code 1 (typer.Exit(1)), or an
\* exception nobody caught
EndWith(how, newLoc, call) ==
    /\ pc' = "done"
    /\ outcome' = how
    /\ loc' = newLoc
    /\ lastCall' = call
    /\ UNCHANGED <<cmd, yes, profile, selected_profile, validated, client>>
    /\ NavFrame

End(how, call) == EndWith(how, loc, call)

\* a menu returns "back": the wizard binds it to result and its loop starts
\* over with the menu's frame gone
Returned(value) == [NoLocals EXCEPT !.result = value]

\* what "refresh" would be if it returned to the wizard as "back" does
RefreshPops(load) ==
    /\ pc' = "main:menu"
    /\ client' = None
    /\ loc' = [NoLocals EXCEPT !.action = "refresh"]
    /\ lastCall' = NoCall
    /\ UNCHANGED <<cmd, yes, profile, selected_profile, validated, outcome>>
    /\ NavFrame

\* "refresh" in a resource menu: "continue", the loop body runs again
Refresh(load) == Step(load, [loc EXCEPT !.action = "refresh"], NoCall)

\* what "exit" would be if a wizard dropped the "exit" its menu returned
ExitIgnored ==
    /\ pc' = "main:menu"
    /\ client' = None
    /\ loc' = [NoLocals EXCEPT !.action = "exit", !.result = "exit"]
    /\ lastCall' = NoCall
    /\ UNCHANGED <<cmd, yes, profile, selected_profile, validated, outcome>>
    /\ NavFrame

\* "exit" in a resource menu: the menu returns "exit", the wizard returns it
\* and main breaks out of its loop
Exit == EndWith("exit0", [loc EXCEPT !.action = "exit", !.result = "exit"], NoCall)

\* where a command goes once the profile is selected and the login made
Entry(c) ==
    CASE c = "wizard"       -> "main:menu"
      [] c = "ec2 start"    -> IF yes THEN "start_cmd:call" ELSE "start_cmd:confirm"
      [] c = "ec2 stop"     -> IF yes THEN "stop_cmd:call" ELSE "stop_cmd:confirm"
      [] c = "ec2 reboot"   -> IF yes THEN "reboot_cmd:call" ELSE "reboot_cmd:confirm"
      [] c = "sc terminate" -> "terminate_cmd:details"

NavInit ==
    /\ cmd \in Commands
    /\ yes \in BOOLEAN
    /\ (cmd = "wizard" => yes = FALSE)
    /\ profile \in ProfileArgs
    /\ pc = "select_profile"
    /\ selected_profile = None
    /\ validated = {}
    /\ client = None
    /\ loc = NoLocals
    /\ lastCall = NoCall
    /\ outcome = "running"

(***************************************************************************)
(* main(): profile selection and login; the same prologue opens every      *)
(* direct subcommand.                                                      *)
(***************************************************************************)
main_select_profile ==
    /\ pc = "select_profile"
    /\ \E cfg \in ConfigChoices : \E r \in select_profile(cfg, profile) :
          IF r = None
          THEN End("exit1", NoCall)
          ELSE /\ pc' = "ensure_sso_login"
               /\ selected_profile' = r
               /\ lastCall' = NoCall
               /\ UNCHANGED <<cmd, yes, profile, validated, client, loc, outcome>>
               /\ NavFrame

main_ensure_sso_login ==
    /\ pc = "ensure_sso_login"
    /\ \E sts_rc \in ReturnCodes, login_rc \in ReturnCodes :
          IF ensure_sso_login(sts_rc, login_rc)
          THEN /\ pc' = Entry(cmd)
               /\ validated' = validated \cup {selected_profile}
               /\ client' = IF cmd = "wizard" THEN None ELSE selected_profile
               /\ lastCall' = NoCall
               /\ UNCHANGED <<cmd, yes, profile, selected_profile, loc, outcome>>
               /\ NavFrame
          ELSE End("exit1", NoCall)

(***************************************************************************)
(* main(): the main menu loop.                                             *)
(***************************************************************************)
MainChoices == {"ecs", "ec2", "sc", "apigw", "profiles", "switch", "exit"}

\* a wizard is entered: its clients are built for the profile selected now
EnterWizard(to) ==
    /\ pc' = to
    /\ client' = selected_profile
    /\ loc' = NoLocals
    /\ lastCall' = NoCall
    /\ UNCHANGED <<cmd, yes, profile, selected_profile, validated, outcome>>
    /\ NavFrame

\* a wizard returns something other than "exit": the main menu is shown again
ReturnToMain(call) ==
    /\ pc' = "main:menu"
    /\ client' = None
    /\ loc' = NoLocals
    /\ lastCall' = call
    /\ UNCHANGED <<cmd, yes, profile, selected_profile, validated, outcome>>
    /\ NavFrame

main_menu ==
    /\ pc = "main:menu"
    /\ \E action \in MainChoices :
          CASE action = "ecs"      -> EnterWizard("ecs:list_clusters")
            [] action = "ec2"      -> EnterWizard("ec2:filter")
            [] action = "sc"       -> EnterWizard("sc:action")
            [] action = "apigw"    -> EnterWizard("apigw:list_apis")
            [] action = "profiles" -> Step("main:profiles_pause", loc, NoCall)
            [] action = "switch"   -> Step("main:switch", loc, NoCall)
            [] action = "exit"     ->
                   EndWith("exit0", [loc EXCEPT !.action = action], NoCall)

main_profiles_pause ==
    /\ pc = "main:profiles_pause"
    /\ Step("main:menu", loc, NoCall)

\* "switch": new_profile = select_profile(); the profile changes only when a
\* profile came back and ensure_sso_login(new_profile) returned True
\* what "switch" would be if the login of the new profile were not awaited
main_switch_unchecked ==
    /\ pc = "main:switch"
    /\ \E cfg \in ConfigChoices : \E new_profile \in select_profile(cfg, None) :
       \E sts_rc \in ReturnCodes, login_rc \in ReturnCodes :
          LET ok == new_profile # None /\ ensure_sso_login(sts_rc, login_rc) IN
          /\ pc' = "main:menu"
          /\ selected_profile' = IF new_profile # None THEN new_profile ELSE selected_profile
          /\ validated' = IF ok THEN validated \cup {new_profile} ELSE validated
          /\ loc' = [loc EXCEPT !.new_profile = new_profile]
          /\ lastCall' = NoCall
          /\ UNCHANGED <<cmd, yes, profile, client, outcome>>
          /\ NavFrame

main_switch ==
    /\ pc = "main:switch"
    /\ \E cfg \in ConfigChoices : \E new_profile \in select_profile(cfg, None) :
       \E sts_rc \in ReturnCodes, login_rc \in ReturnCodes :
          LET ok == new_profile # None /\ ensure_sso_login(sts_rc, login_rc) IN
          /\ pc' = "main:menu"
          /\ selected_profile' = IF ok THEN new_profile ELSE selected_profile
          /\ validated' = IF ok THEN validated \cup {new_profile} ELSE validated
          /\ loc' = [loc EXCEPT !.new_profile = new_profile]
          /\ lastCall' = NoCall
          /\ UNCHANGED <<cmd, yes, profile, client, outcome>>
          /\ NavFrame

(***************************************************************************)
(* run_ecs_wizard (main.py) and interactive_menu (commands/ecs.py).        *)
(***************************************************************************)
Back == "back"

\* what a list call may do: raise, return nothing, return something
ListResults == {"raise", "empty", "some"}

\* list_clusters is not wrapped: an exception leaves run_ecs_wizard and main
run_ecs_wizard_list_clusters ==
    /\ pc = "ecs:list_clusters"
    /\ \E r \in ListResults :
          CASE r = "raise" -> End("crashed", Call("list_clusters", client))
            [] r = "empty" -> ReturnToMain(Call("list_clusters", client))
            [] r = "some"  -> Step("ecs:select_cluster", loc,
                                   Call("list_clusters", client))

run_ecs_wizard_select_cluster ==
    /\ pc = "ecs:select_cluster"
    /\ \E c \in Clusters \cup {Back} :
          IF c = Back
          THEN ReturnToMain(NoCall)
          ELSE Step("ecs:list_services", [loc EXCEPT !.cluster = c], NoCall)

\* no services: "continue", the loop starts over at the cluster list
run_ecs_wizard_list_services ==
    /\ pc = "ecs:list_services"
    /\ \E r \in ListResults :
          CASE r = "raise" -> End("crashed", Call("list_services", client))
            [] r = "empty" -> Step("ecs:list_clusters", [loc EXCEPT !.cluster = None],
                                   Call("list_services", client))
            [] r = "some"  -> Step("ecs:select_service", loc,
                                   Call("list_services", client))

\* "Voltar": "continue", the loop starts over at the cluster list; a service:
\* interactive_menu(ecs_client, logs_client, cluster, service), profile = None
run_ecs_wizard_select_service ==
    /\ pc = "ecs:select_service"
    /\ \E s \in Services \cup {Back} :
          IF s = Back
          THEN Step("ecs:list_clusters", [loc EXCEPT !.cluster = None], NoCall)
          ELSE Step("ecsmenu:load",
                    [loc EXCEPT !.service = s, !.menu_profile = None], NoCall)

\* interactive_menu: get_service_details and get_tasks, neither wrapped
ecs_interactive_menu_load ==
    /\ pc = "ecsmenu:load"
    /\ \E r \in ListResults :
          CASE r = "raise" -> End("crashed", Call("describe_services", client))
            [] r = "empty" -> Step("ecsmenu:select", [loc EXCEPT !.tasks = "empty"],
                                   Call("describe_services", client))
            [] r = "some"  -> Step("ecsmenu:select", [loc EXCEPT !.tasks = "some"],
                                   Call("describe_services", client))

\* the entries of the menu, in order (the labels without their emoji)
actions ==
    << [name |-> "Conectar no Container (Shell)",   value |-> "exec"],
       [name |-> "Ver Logs",                        value |-> "logs"],
       [name |-> "Ver Tasks em detalhe",            value |-> "tasks"],
       [name |-> "Forcar nova Task (deploy)",       value |-> "force"],
       [name |-> "Atualizar informacoes",           value |-> "refresh"],
       [name |-> "Voltar (escolher outro service)", value |-> "back"],
       [name |-> "Sair",                            value |-> "exit"] >>

\* "if not tasks: actions[2]["name"] = ...": the third entry (index 2 from 0)
\* is renamed
EcsMenuActions(tasks) ==
    IF tasks = "empty"
    THEN [actions EXCEPT ![3].name = "Forcar nova Task (deploy) [RECOMENDADO]"]
    ELSE actions

\* "back" returns "back" to run_ecs_wizard, whose loop starts over at the
\* cluster list; "exit" returns "exit", which main turns into a break. The
\* user picks an entry by its name, the prompt returns the entry's value.
ecs_interactive_menu_select ==
    /\ pc = "ecsmenu:select"
    /\ \E i \in DOMAIN EcsMenuActions(loc.tasks) :
          LET action == EcsMenuActions(loc.tasks)[i].value
              fresh == [loc EXCEPT !.confirm = "unset", !.action = action,
                                   !.label = EcsMenuActions(loc.tasks)[i].name] IN
          CASE action = "exec"    -> Step("ecsexec:get_tasks", fresh, NoCall)
            [] action = "logs"    -> Step("ecslogs:log_groups", fresh, NoCall)
            [] action = "tasks"   -> Step("ecstasks:get_tasks", fresh, NoCall)
            [] action = "force"   -> Step("ecsforce:confirm", fresh, NoCall)
            [] action = "refresh" -> Refresh("ecsmenu:load")
            [] action = "back"    -> Step("ecs:list_clusters", Returned("back"), NoCall)
            [] action = "exit"    -> Exit

ecs_interactive_menu_pause ==
    /\ pc = "ecsmenu:pause"
    /\ Step("ecsmenu:load", loc, NoCall)

\* execute_command_action: without the plugin it returns at once; get_tasks is
\* not wrapped; with no running task it returns
execute_command_action_get_tasks ==
    /\ pc = "ecsexec:get_tasks"
    /\ \E plugin \in BOOLEAN, r \in ListResults :
          IF ~plugin
          THEN Step("ecsmenu:pause", loc, NoCall)
          ELSE CASE r = "raise" -> End("crashed", Call("list_tasks", client))
                 [] r = "empty" -> Step("ecsmenu:pause", loc, Call("list_tasks", client))
                 [] r = "some"  -> Step("ecsexec:run", loc, Call("list_tasks", client))

\* subprocess.call(["aws", "ecs", "execute-command", ...]) with --profile only
\* when the profile parameter is set; without it the aws CLI uses its own
\* default. The call is wrapped.
ExecProfiles(menu_profile) ==
    IF menu_profile # None THEN {menu_profile} ELSE AmbientProfiles

execute_command_action_run ==
    /\ pc = "ecsexec:run"
    /\ \E p \in ExecProfiles(loc.menu_profile) :
          Step("ecsmenu:pause", loc, Call("execute-command", p))

\* view_logs_action: get_container_log_groups catches its own failures and
\* returns {}; then the container, line count and level prompts
view_logs_action_log_groups ==
    /\ pc = "ecslogs:log_groups"
    /\ \E r \in ListResults :
          IF r \in {"raise", "empty"}
          THEN Step("ecsmenu:pause", loc, Call("describe_services", client))
          ELSE Step("ecslogs:prompts", loc, Call("describe_services", client))

view_logs_action_prompts ==
    /\ pc = "ecslogs:prompts"
    /\ Step("ecslogs:fetch", loc, NoCall)

\* filter_log_events and the display sit in one try: a failure is printed
view_logs_action_fetch ==
    /\ pc = "ecslogs:fetch"
    /\ \E r \in {"raise", "ok"} :
          Step("ecsmenu:pause", loc, Call("filter_log_events", client))

\* view_tasks_action: get_tasks is not wrapped
view_tasks_action_get_tasks ==
    /\ pc = "ecstasks:get_tasks"
    /\ \E r \in ListResults :
          IF r = "raise"
          THEN End("crashed", Call("list_tasks", client))
          ELSE Step("ecsmenu:pause", loc, Call("list_tasks", client))

Answers == {"yes", "no"}

force_task_action_confirm ==
    /\ pc = "ecsforce:confirm"
    /\ \E confirm \in Answers :
          IF confirm = "no"
          THEN Step("ecsmenu:pause", [loc EXCEPT !.confirm = confirm], NoCall)
          ELSE Step("ecsforce:call", [loc EXCEPT !.confirm = confirm], NoCall)

force_task_action_call ==
    /\ pc = "ecsforce:call"
    /\ \E r \in {"raise", "ok"} :
          Step("ecsmenu:pause", loc, Call("update_service", client))

(***************************************************************************)
(* run_ec2_wizard (main.py) and interactive_menu (commands/ec2.py).        *)
(***************************************************************************)
FilterChoices == {"all", "running", "stopped", Back}

run_ec2_wizard_filter ==
    /\ pc = "ec2:filter"
    /\ \E filter_choice \in FilterChoices :
          IF filter_choice = Back
          THEN ReturnToMain(NoCall)
          ELSE Step("ec2:list_instances",
                    [loc EXCEPT !.filter_choice = filter_choice], NoCall)

\* list_instances is not wrapped; no instance: "continue" to the filter prompt
run_ec2_wizard_list_instances ==
    /\ pc = "ec2:list_instances"
    /\ \E r \in ListResults :
          CASE r = "raise" -> End("crashed", Call("describe_instances", client))
            [] r = "empty" -> Step("ec2:filter", NoLocals,
                                   Call("describe_instances", client))
            [] r = "some"  -> Step("ec2:select_instance", loc,
                                   Call("describe_instances", client))

\* "Voltar" (None): "continue" to the filter prompt
run_ec2_wizard_select_instance ==
    /\ pc = "ec2:select_instance"
    /\ \E selected \in Instances \cup {None} :
          IF selected = None
          THEN Step("ec2:filter", NoLocals, NoCall)
          ELSE Step("ec2menu:load", [loc EXCEPT !.instance = selected], NoCall)

\* interactive_menu: get_instance_details is not wrapped; an instance that is
\* gone returns "back" to the wizard, whose loop starts over
ec2_interactive_menu_load ==
    /\ pc = "ec2menu:load"
    /\ \E r \in {"raise", "empty"} \cup InstanceStates :
          CASE r = "raise" -> End("crashed", Call("describe_instances", client))
            [] r = "empty" -> Step("ec2:filter", Returned("back"),
                                   Call("describe_instances", client))
            [] OTHER       -> Step("ec2menu:select", [loc EXCEPT !.state = r],
                                   Call("describe_instances", client))

\* what the menu would offer if it did not look at the state
Ec2MenuChoicesAnyState(state) ==
    {"start", "stop", "reboot", "refresh", "back", "exit"}

\* the actions offered for the state just fetched
Ec2MenuChoices(state) ==
    (IF state = "stopped" THEN {"start"}
     ELSE IF state = "running" THEN {"stop", "reboot"} ELSE {})
    \cup {"refresh", "back", "exit"}

ec2_interactive_menu_select ==
    /\ pc = "ec2menu:select"
    /\ \E action \in Ec2MenuChoices(loc.state) :
          LET fresh == [loc EXCEPT !.confirm = "unset", !.action = action] IN
          CASE action = "start"   -> Step("ec2start:confirm", fresh, NoCall)
            [] action = "stop"    -> Step("ec2stop:confirm", fresh, NoCall)
            [] action = "reboot"  -> Step("ec2reboot:confirm", fresh, NoCall)
            [] action = "refresh" -> Refresh("ec2menu:load")
            [] action = "back"    -> Step("ec2:filter", Returned("back"), NoCall)
            [] action = "exit"    -> Exit

ec2_interactive_menu_pause ==
    /\ pc = "ec2menu:pause"
    /\ Step("ec2menu:load", loc, NoCall)

start_instance_action_confirm ==
    /\ pc = "ec2start:confirm"
    /\ \E confirm \in Answers :
          IF confirm = "no"
          THEN Step("ec2menu:pause", [loc EXCEPT !.confirm = confirm], NoCall)
          ELSE Step("ec2start:call", [loc EXCEPT !.confirm = confirm], NoCall)

start_instance_action_call ==
    /\ pc = "ec2start:call"
    /\ \E r \in {"raise", "ok"} :
          Step("ec2menu:pause", loc, Call("start_instances", client))

\* the bug a missing "if not confirm: return" would be
stop_instance_action_confirm_ignored ==
    /\ pc = "ec2stop:confirm"
    /\ \E confirm \in Answers :
          Step("ec2stop:call", [loc EXCEPT !.confirm = confirm], NoCall)

stop_instance_action_confirm ==
    /\ pc = "ec2stop:confirm"
    /\ \E confirm \in Answers :
          IF confirm = "no"
          THEN Step("ec2menu:pause", [loc EXCEPT !.confirm = confirm], NoCall)
          ELSE Step("ec2stop:call", [loc EXCEPT !.confirm = confirm], NoCall)

\* what the action would be if the menu were drawn again with no pause
stop_instance_action_call_no_pause ==
    /\ pc = "ec2stop:call"
    /\ \E r \in {"raise", "ok"} :
          Step("ec2menu:load", loc, Call("stop_instances", client))

stop_instance_action_call ==
    /\ pc = "ec2stop:call"
    /\ \E r \in {"raise", "ok"} :
          Step("ec2menu:pause", loc, Call("stop_instances", client))

reboot_instance_action_confirm ==
    /\ pc = "ec2reboot:confirm"
    /\ \E confirm \in Answers :
          IF confirm = "no"
          THEN Step("ec2menu:pause", [loc EXCEPT !.confirm = confirm], NoCall)
          ELSE Step("ec2reboot:call", [loc EXCEPT !.confirm = confirm], NoCall)

reboot_instance_action_call ==
    /\ pc = "ec2reboot:call"
    /\ \E r \in {"raise", "ok"} :
          Step("ec2menu:pause", loc, Call("reboot_instances", client))

(***************************************************************************)
(* run_servicecatalog_wizard (main.py); interactive_provisioned_menu,      *)
(* terminate_product_action, provision_product_action (servicecatalog.py). *)
(***************************************************************************)
ScChoices == {"products", "provisioned", "launch", Back}

run_servicecatalog_wizard_action ==
    /\ pc = "sc:action"
    /\ \E action \in ScChoices :
          CASE action = "products"    -> Step("sc:list_products", loc, NoCall)
            [] action = "provisioned" -> Step("sc:list_provisioned", loc, NoCall)
            [] action = "launch"      -> Step("sc:launch_list_products", loc, NoCall)
            [] action = Back          -> ReturnToMain(NoCall)

\* list_products catches its own failures and returns what it has
run_servicecatalog_wizard_list_products ==
    /\ pc = "sc:list_products"
    /\ \E r \in ListResults :
          Step("sc:pause", loc, Call("search_products", client))

\* the "press enter" of the products, empty-provisioned and launch branches
run_servicecatalog_wizard_pause ==
    /\ pc = "sc:pause"
    /\ Step("sc:action", NoLocals, NoCall)

\* list_provisioned_products catches its own failures
run_servicecatalog_wizard_list_provisioned ==
    /\ pc = "sc:list_provisioned"
    /\ \E r \in ListResults :
          IF r \in {"raise", "empty"}
          THEN Step("sc:pause", loc, Call("scan_provisioned_products", client))
          ELSE Step("sc:select_provisioned", loc,
                    Call("scan_provisioned_products", client))

run_servicecatalog_wizard_select_provisioned ==
    /\ pc = "sc:select_provisioned"
    /\ \E selected_pp \in Provisioned \cup {NoPP} :
          IF selected_pp = NoPP
          THEN Step("sc:action", NoLocals, NoCall)
          ELSE Step("scmenu:load", [loc EXCEPT !.selected_pp = selected_pp], NoCall)

\* get_provisioned_product_detail catches its own failures and returns {}:
\* the menu then returns "back"
interactive_provisioned_menu_load ==
    /\ pc = "scmenu:load"
    /\ \E r \in {"raise", "ok"} :
          IF r = "raise"
          THEN Step("sc:action", Returned("back"),
                    Call("describe_provisioned_product", client))
          ELSE Step("scmenu:select", loc, Call("describe_provisioned_product", client))

ScMenuChoices == {"refresh", "terminate", "back", "exit"}

interactive_provisioned_menu_select ==
    /\ pc = "scmenu:select"
    /\ \E action \in ScMenuChoices :
          CASE action = "refresh"   -> Refresh("scmenu:load")
            [] action = "terminate" ->
                   Step("scterm:confirm",
                        [loc EXCEPT !.confirm = "unset", !.confirm_name = <<>>,
                                    !.action = action], NoCall)
            [] action = "back"      -> Step("sc:action", Returned("back"), NoCall)
            [] action = "exit"      -> Exit

interactive_provisioned_menu_pause ==
    /\ pc = "scmenu:pause"
    /\ Step("scmenu:load", loc, NoCall)

terminate_product_action_confirm ==
    /\ pc = "scterm:confirm"
    /\ \E confirm \in Answers :
          IF confirm = "no"
          THEN Step("scmenu:pause", [loc EXCEPT !.confirm = confirm], NoCall)
          ELSE Step("scterm:retype", [loc EXCEPT !.confirm = confirm], NoCall)

\* the bug a tolerant comparison would be: blanks and letter case ignored
NameConfersLoosely(confirm_name, name) ==
    upper(strip(confirm_name)) = upper(strip(name))

\* confirm_name != pp['name'] cancels
NameConfers(confirm_name, name) == confirm_name = name

terminate_product_action_retype ==
    /\ pc = "scterm:retype"
    /\ \E confirm_name \in TypedNames :
          IF ~NameConfers(confirm_name, loc.selected_pp.name)
          THEN Step("scmenu:pause", [loc EXCEPT !.confirm_name = confirm_name], NoCall)
          ELSE Step("scterm:call", [loc EXCEPT !.confirm_name = confirm_name], NoCall)

terminate_product_action_call ==
    /\ pc = "scterm:call"
    /\ \E r \in {"raise", "ok"} :
          Step("scmenu:pause", loc, Call("terminate_provisioned_product", client))

\* "launch": no product (or a failed listing): "continue"
run_servicecatalog_wizard_launch_list ==
    /\ pc = "sc:launch_list_products"
    /\ \E r \in ListResults :
          IF r \in {"raise", "empty"}
          THEN Step("sc:action", NoLocals, Call("search_products", client))
          ELSE Step("sc:launch_select", loc, Call("search_products", client))

run_servicecatalog_wizard_launch_select ==
    /\ pc = "sc:launch_select"
    /\ \E chosen \in BOOLEAN :
          IF chosen
          THEN Step("scprov:versions", [loc EXCEPT !.confirm = "unset"], NoCall)
          ELSE Step("sc:action", NoLocals, NoCall)

\* provision_product_action: get_product_versions and get_launch_paths catch
\* their own failures; no version: return (to the pause)
provision_product_action_versions ==
    /\ pc = "scprov:versions"
    /\ \E r \in ListResults :
          IF r \in {"raise", "empty"}
          THEN Step("sc:pause", loc, Call("describe_product", client))
          ELSE Step("scprov:select_version", loc, Call("describe_product", client))

provision_product_action_select_version ==
    /\ pc = "scprov:select_version"
    /\ \E chosen \in BOOLEAN :
          IF chosen
          THEN Step("scprov:parameters", loc, NoCall)
          ELSE Step("sc:pause", loc, NoCall)

\* get_provisioning_parameters catches its own failures; then the parameter
\* prompts
provision_product_action_parameters ==
    /\ pc = "scprov:parameters"
    /\ \E r \in ListResults :
          Step("scprov:name", loc, Call("describe_provisioning_parameters", client))

\* an empty name cancels
provision_product_action_name ==
    /\ pc = "scprov:name"
    /\ \E named \in BOOLEAN :
          IF named
          THEN Step("scprov:confirm", loc, NoCall)
          ELSE Step("sc:pause", loc, NoCall)

provision_product_action_confirm ==
    /\ pc = "scprov:confirm"
    /\ \E confirm \in Answers :
          IF confirm = "no"
          THEN Step("sc:pause", [loc EXCEPT !.confirm = confirm], NoCall)
          ELSE Step("scprov:call", [loc EXCEPT !.confirm = confirm], NoCall)

provision_product_action_call ==
    /\ pc = "scprov:call"
    /\ \E r \in {"raise", "ok"} :
          Step("sc:pause", loc, Call("provision_product", client))

(***************************************************************************)
(* run_apigw_wizard (main.py); list_apis, list_routes (apigateway.py).     *)
(***************************************************************************)
\* list_apis catches its own failures; no API: return
run_apigw_wizard_list_apis ==
    /\ pc = "apigw:list_apis"
    /\ \E r \in ListResults :
          IF r \in {"raise", "empty"}
          THEN ReturnToMain(Call("get_apis", client))
          ELSE Step("apigw:select_api", loc, Call("get_apis", client))

run_apigw_wizard_select_api ==
    /\ pc = "apigw:select_api"
    /\ \E api \in Apis \cup {None} :
          IF api = None
          THEN ReturnToMain(NoCall)
          ELSE Step("apigwmenu:select", [loc EXCEPT !.api = api], NoCall)

ApigwMenuChoices == {"list", "create", "back", "exit"}

\* "back" breaks the inner loop: the outer loop lists the APIs again
run_apigw_wizard_menu ==
    /\ pc = "apigwmenu:select"
    /\ \E action \in ApigwMenuChoices :
          CASE action = "list"   ->
                   Step("apigw:list_routes", [loc EXCEPT !.action = action], NoCall)
            [] action = "create" ->
                   Step("apigwcreate:path",
                        [loc EXCEPT !.confirm = "unset", !.action = action], NoCall)
            [] action = "back"   ->
                   Step("apigw:list_apis", [NoLocals EXCEPT !.action = action], NoCall)
            [] action = "exit"   -> Exit

\* list_routes catches its own failures
run_apigw_wizard_list_routes ==
    /\ pc = "apigw:list_routes"
    /\ \E r \in ListResults :
          Step("apigwmenu:pause", loc, Call("get_routes", client))

run_apigw_wizard_pause ==
    /\ pc = "apigwmenu:pause"
    /\ Step("apigwmenu:select", loc, NoCall)

\* an empty path or "cancelar", and "Cancelar" at the method prompt: "continue"
run_apigw_wizard_create_path ==
    /\ pc = "apigwcreate:path"
    /\ \E given \in BOOLEAN :
          IF given
          THEN Step("apigwcreate:method", loc, NoCall)
          ELSE Step("apigwmenu:select", loc, NoCall)

run_apigw_wizard_create_method ==
    /\ pc = "apigwcreate:method"
    /\ \E given \in BOOLEAN :
          IF given
          THEN Step("apigwcreate:confirm", loc, NoCall)
          ELSE Step("apigwmenu:select", loc, NoCall)

\* declined: the menu is shown again at once
run_apigw_wizard_create_confirm ==
    /\ pc = "apigwcreate:confirm"
    /\ \E confirm \in Answers :
          IF confirm = "no"
          THEN Step("apigwmenu:select", [loc EXCEPT !.confirm = confirm], NoCall)
          ELSE Step("apigwcreate:call", [loc EXCEPT !.confirm = confirm], NoCall)

run_apigw_wizard_create_call ==
    /\ pc = "apigwcreate:call"
    /\ \E r \in {"raise", "ok"} :
          Step("apigwmenu:pause", loc, Call("create_route", client))

(***************************************************************************)
(* The direct subcommands: ec2 start / stop / reboot (commands/ec2.py) and *)
(* sc terminate (servicecatalog.py).  Declining returns (code 0); a failed *)
(* call raises typer.Exit(1).                                              *)
(***************************************************************************)
start_cmd_confirm ==
    /\ pc = "start_cmd:confirm"
    /\ \E confirm \in Answers :
          IF confirm = "no"
          THEN EndWith("exit0", [loc EXCEPT !.confirm = confirm], NoCall)
          ELSE Step("start_cmd:call", [loc EXCEPT !.confirm = confirm], NoCall)

start_cmd_call ==
    /\ pc = "start_cmd:call"
    /\ \E r \in {"raise", "ok"} :
          End(IF r = "ok" THEN "exit0" ELSE "exit1", Call("start_instances", client))

stop_cmd_confirm ==
    /\ pc = "stop_cmd:confirm"
    /\ \E confirm \in Answers :
          IF confirm = "no"
          THEN EndWith("exit0", [loc EXCEPT !.confirm = confirm], NoCall)
          ELSE Step("stop_cmd:call", [loc EXCEPT !.confirm = confirm], NoCall)

stop_cmd_call ==
    /\ pc = "stop_cmd:call"
    /\ \E r \in {"raise", "ok"} :
          End(IF r = "ok" THEN "exit0" ELSE "exit1", Call("stop_instances", client))

reboot_cmd_confirm ==
    /\ pc = "reboot_cmd:confirm"
    /\ \E confirm \in Answers :
          IF confirm = "no"
          THEN EndWith("exit0", [loc EXCEPT !.confirm = confirm], NoCall)
          ELSE Step("reboot_cmd:call", [loc EXCEPT !.confirm = confirm], NoCall)

reboot_cmd_call ==
    /\ pc = "reboot_cmd:call"
    /\ \E r \in {"raise", "ok"} :
          End(IF r = "ok" THEN "exit0" ELSE "exit1", Call("reboot_instances", client))

\* terminate_cmd: the product is described first; nothing found: Exit(1).
\* Without --yes one yes/no prompt follows; no name is asked for.
terminate_cmd_details ==
    /\ pc = "terminate_cmd:details"
    /\ \E r \in {"raise", "ok"}, details \in Provisioned :
          IF r = "raise"
          THEN End("exit1", Call("describe_provisioned_product", client))
          ELSE Step(IF yes THEN "terminate_cmd:call" ELSE "terminate_cmd:confirm",
                    [loc EXCEPT !.selected_pp = details],
                    Call("describe_provisioned_product", client))

terminate_cmd_confirm ==
    /\ pc = "terminate_cmd:confirm"
    /\ \E confirm \in Answers :
          IF confirm = "no"
          THEN EndWith("exit0", [loc EXCEPT !.confirm = confirm], NoCall)
          ELSE Step("terminate_cmd:call", [loc EXCEPT !.confirm = confirm], NoCall)

terminate_cmd_call ==
    /\ pc = "terminate_cmd:call"
    /\ \E r \in {"raise", "ok"} :
          End(IF r = "ok" THEN "exit0" ELSE "exit1",
              Call("terminate_provisioned_product", client))

(***************************************************************************)
(* The run of the program.                                                 *)
(***************************************************************************)
\* no log view on the screen
NoView ==
    [mode |-> "none", tail |-> 0, level_filter |-> <<>>, failed |-> FALSE,
     fetched |-> <<>>, displayed |-> <<>>, error |-> FALSE, raised |-> FALSE]

\* no entry formatted yet
NoEntry ==
    [called |-> FALSE, raised |-> FALSE, level |-> <<>>, message |-> <<>>,
     json_data |-> NoJson]

LogsIdle == window = <<>> /\ view = NoView
FmtIdle == message = <<>> /\ entry = NoEntry
ClientsIdle == sessions = <<>> /\ issued = <<>>
NoStamp == [called |-> FALSE, kind |-> "none", value |-> Zero]
TimeIdle == timestamp = Zero /\ stamp = NoStamp
NoPath == [bucket |-> None, prefix |-> <<>>]
S3Idle ==
    /\ buckets = {} /\ objects = {}
    /\ current_bucket = None /\ current_prefix = <<>>
    /\ display_path = NoPath /\ selection = <<>> /\ s3pc = "idle"

Init == NavInit /\ LogsIdle /\ FmtIdle /\ ClientsIdle /\ TimeIdle /\ S3Idle

Next ==
    \/ main_select_profile
    \/ main_ensure_sso_login
    \/ main_menu
    \/ main_profiles_pause
    \/ main_switch
    \/ run_ecs_wizard_list_clusters
    \/ run_ecs_wizard_select_cluster
    \/ run_ecs_wizard_list_services
    \/ run_ecs_wizard_select_service
    \/ ecs_interactive_menu_load
    \/ ecs_interactive_menu_select
    \/ ecs_interactive_menu_pause
    \/ execute_command_action_get_tasks
    \/ execute_command_action_run
    \/ view_logs_action_log_groups
    \/ view_logs_action_prompts
    \/ view_logs_action_fetch
    \/ view_tasks_action_get_tasks
    \/ force_task_action_confirm
    \/ force_task_action_call
    \/ run_ec2_wizard_filter
    \/ run_ec2_wizard_list_instances
    \/ run_ec2_wizard_select_instance
    \/ ec2_interactive_menu_load
    \/ ec2_interactive_menu_select
    \/ ec2_interactive_menu_pause
    \/ start_instance_action_confirm
    \/ start_instance_action_call
    \/ stop_instance_action_confirm
    \/ stop_instance_action_call
    \/ reboot_instance_action_confirm
    \/ reboot_instance_action_call
    \/ run_servicecatalog_wizard_action
    \/ run_servicecatalog_wizard_list_products
    \/ run_servicecatalog_wizard_pause
    \/ run_servicecatalog_wizard_list_provisioned
    \/ run_servicecatalog_wizard_select_provisioned
    \/ interactive_provisioned_menu_load
    \/ interactive_provisioned_menu_select
    \/ interactive_provisioned_menu_pause
    \/ terminate_product_action_confirm
    \/ terminate_product_action_retype
    \/ terminate_product_action_call
    \/ run_servicecatalog_wizard_launch_list
    \/ run_servicecatalog_wizard_launch_select
    \/ provision_product_action_versions
    \/ provision_product_action_select_version
    \/ provision_product_action_parameters
    \/ provision_product_action_name
    \/ provision_product_action_confirm
    \/ provision_product_action_call
    \/ run_apigw_wizard_list_apis
    \/ run_apigw_wizard_select_api
    \/ run_apigw_wizard_menu
    \/ run_apigw_wizard_list_routes
    \/ run_apigw_wizard_pause
    \/ run_apigw_wizard_create_path
    \/ run_apigw_wizard_create_method
    \/ run_apigw_wizard_create_confirm
    \/ run_apigw_wizard_create_call
    \/ start_cmd_confirm
    \/ start_cmd_call
    \/ stop_cmd_confirm
    \/ stop_cmd_call
    \/ reboot_cmd_confirm
    \/ reboot_cmd_call
    \/ terminate_cmd_details
    \/ terminate_cmd_confirm
    \/ terminate_cmd_call

Spec == Init /\ [][Next]_vars

(***************************************************************************)
(* The formatter on its own (SpecFmt): format_log_entry applied to one     *)
(* event whose message is a concatenation of fragments.                    *)
(***************************************************************************)
NavIdle ==
    /\ cmd = "wizard"
    /\ yes = FALSE
    /\ profile = None
    /\ pc = "idle"
    /\ selected_profile = None
    /\ validated = {}
    /\ client = None
    /\ loc = NoLocals
    /\ lastCall = NoCall
    /\ outcome = "running"

MaxFrags == 3

F_bracket_error == <<"[","E","R","R","O","R","]">>
F_bracket_main  == <<"[","m","a","i","n","]">>
F_warning       == <<"W","A","R","N","I","N","G">>
F_warn          == <<"w","a","r","n">>
F_blank         == <<" ">>
F_json_fatal    == <<"{","\"","l","e","v","e","l","\"",":","\"","f","a","t","a","l","\"","}">>
F_json_number   == <<"{","\"","l","e","v","e","l","\"",":","5","}">>
F_json_long     == <<"{","\"","n","\"",":","1","1","1","1","1","}">>
F_severity      == <<"\"","s","e","v","e","r","i","t","y","\"",":"," ","\"","d","e","b","u","g","\"">>
F_failed        == <<"f","a","i","l","e","d">>
F_open          == <<"{">>
F_close         == <<"}">>
F_x             == <<"x">>

Fragments ==
    {F_bracket_error, F_bracket_main, F_warning, F_warn, F_blank, F_json_fatal,
     F_json_number, F_json_long, F_severity, F_failed, F_open, F_close, F_x}

RECURSIVE Concats(_)
Concats(n) ==
    IF n = 0 THEN {<<>>}
    ELSE LET shorter == Concats(n - 1)
         IN shorter \cup {a \o f : a \in shorter, f \in Fragments}

Messages == Concats(MaxFrags)

InitFmt == NavIdle /\ LogsIdle /\ ClientsIdle /\ TimeIdle /\ S3Idle /\ message \in Messages /\ entry = NoEntry

\* the entry as the formatter's caller holds it
Formatted(e) ==
    [called |-> TRUE, raised |-> e.raised, level |-> e.level, message |-> e.message,
     json_data |-> e.json_data]

\* create_log_table: formatted = format_log_entry(event)
create_log_table_format ==
    /\ ~entry.called
    /\ entry' = Formatted(format_log_entry([timestamp |-> 0, message |-> message]))
    /\ UNCHANGED <<navVars, logVars, cliVars, timeVars, s3Vars, message>>

NextFmt == create_log_table_format

SpecFmt == InitFmt /\ [][NextFmt]_vars

(***************************************************************************)
(* The log view (SpecLogs): the events the log group holds in the look-    *)
(* back window, oldest first, and what one view of them puts on screen.    *)
(***************************************************************************)
MaxEvents == 4
PageCap == 3
MaxTail == 11
MaxNegTail == 1
min_allowed == 10
max_allowed == 500

Min(a, b) == IF a < b THEN a ELSE b
Max(a, b) == IF a > b THEN a ELSE b

M_error  == <<"d","b"," ","E","r","r","o","r">>
M_failed == <<"f","a","i","l","e","d">>
M_number == <<"{","\"","l","e","v","e","l","\"",":","5",",","\"","m","\"",":","\"","e","r","r","o","r","\"","}">>
LogMessages == {M_error, M_failed, M_number}

\* the answers inquirer.number accepts, and the choices of the level select
InteractiveTails == min_allowed..Min(max_allowed, MaxTail)
InteractiveFilters == {<<>>, S_ERROR, S_WARN, S_INFO}

\* --tail takes any integer, --level any string
DirectTails == (0 - MaxNegTail)..MaxTail
DirectFilters == {<<>>, <<"e","r","r","o","r">>, S_ERROR}

\* response["events"] of the one filter_log_events call: the first page
filter_log_events(win) == SubSeq(win, 1, Min(Len(win), PageCap))

\* s[start:]
PySliceFrom(s, start) ==
    LET k == IF start < 0 THEN Max(Len(s) + start, 0) ELSE Min(start, Len(s))
    IN SubSeq(s, k + 1, Len(s))

\* if len(events) > tail: events = events[-tail:]
TailSlice(events, tail) ==
    IF Len(events) > tail THEN PySliceFrom(events, 0 - tail) ELSE events

\* display_logs: the table is built entry by entry and printed whole
display_logs(events) ==
    IF events = <<>> THEN [displayed |-> <<>>, raised |-> FALSE]
    ELSE IF \E n \in 1..Len(events) : format_log_entry(events[n]).raised
         THEN [displayed |-> <<>>, raised |-> TRUE]
         ELSE [displayed |-> events, raised |-> FALSE]

\* a handler that lets the exception through
ExceptionPropagates(raised_inside) == [error |-> FALSE, raised |-> raised_inside]

\* except Exception as e: console.print(...)
view_logs_action_except(raised_inside) == [error |-> raised_inside, raised |-> FALSE]
view_logs_except(raised_inside) == [error |-> raised_inside, raised |-> FALSE]

\* what one view leaves on the screen
ViewOf(mode, ok, tail, level_filter, fetched, shown, handled) ==
    [mode |-> mode, tail |-> tail, level_filter |-> level_filter, failed |-> ~ok,
     fetched |-> fetched, displayed |-> shown.displayed, error |-> handled.error,
     raised |-> handled.raised]

\* [e for e in events if word in e.get("message", "").upper()]
Matching(events, word) ==
    LET keeps(e) == Contains(upper(e.message), word)
    IN IF word # <<>> THEN SelectSeq(events, keeps) ELSE events

\* the try block of view_logs_action and its handler
view_logs_action_shown(ok, tail, level_filter, fetched, shown) ==
    ViewOf("interactive", ok, tail, level_filter, fetched, shown,
           view_logs_action_except(~ok \/ shown.raised))

view_logs_action_fetched(ok, tail, level_filter, fetched) ==
    view_logs_action_shown(ok, tail, level_filter, fetched,
        display_logs(TailSlice(Matching(fetched, level_filter), tail)))

view_logs_action_try(win, ok, tail, level_filter) ==
    view_logs_action_fetched(ok, tail, level_filter,
        IF ok THEN filter_log_events(win) ELSE <<>>)

\* the try block of view_logs and its handler
view_logs_shown(ok, tail, filter_level, fetched, shown) ==
    ViewOf("direct", ok, tail, filter_level, fetched, shown,
           view_logs_except(~ok \/ shown.raised))

view_logs_fetched(ok, tail, filter_level, fetched) ==
    view_logs_shown(ok, tail, filter_level, fetched,
        display_logs(TailSlice(Matching(fetched, upper(filter_level)), tail)))

view_logs_try(win, ok, tail, filter_level) ==
    view_logs_fetched(ok, tail, filter_level,
        IF ok THEN filter_log_events(win) ELSE <<>>)

LogsFrame == UNCHANGED <<navVars, fmtVars, cliVars, timeVars, s3Vars>>

InitLogs == NavIdle /\ LogsIdle /\ FmtIdle /\ ClientsIdle /\ TimeIdle /\ S3Idle

\* the service writes one more event to its log group
put_log_event ==
    /\ view = NoView
    /\ Len(window) < MaxEvents
    /\ \E m \in LogMessages :
          window' = Append(window, [timestamp |-> Len(window) + 1, message |-> m])
    /\ UNCHANGED view
    /\ LogsFrame

\* the service menu's "Ver logs"
view_logs_action ==
    /\ view = NoView
    /\ \E ok \in BOOLEAN, tail \in InteractiveTails, level_filter \in InteractiveFilters :
          view' = view_logs_action_try(window, ok, tail, level_filter)
    /\ UNCHANGED window
    /\ LogsFrame

\* aws-tool ecs logs --tail N --level L
view_logs ==
    /\ view = NoView
    /\ \E ok \in BOOLEAN, tail \in DirectTails, filter_level \in DirectFilters :
          view' = view_logs_try(window, ok, tail, filter_level)
    /\ UNCHANGED window
    /\ LogsFrame

\* the view is over: back at the menu, or the command has ended
view_logs_return ==
    /\ view # NoView
    /\ view' = NoView
    /\ UNCHANGED window
    /\ LogsFrame

NextLogs ==
    \/ put_log_event
    \/ view_logs_action
    \/ view_logs
    \/ view_logs_return

SpecLogs == InitLogs /\ [][NextLogs]_vars

(***************************************************************************)
(* utils/aws_client.py: get_session and get_client.                        *)
(***************************************************************************)
MaxRequests == 4
maxsize == 10

\* the services and profiles clients are asked for
ClientServices == {"ecs", "logs"}
ClientProfiles == Profiles \cup {"stage"}

\* the sessions and clients constructed so far are numbered as they are built
SessionsBuilt(handles) ==
    Cardinality({handles[n].session : n \in 1..Len(handles)})

\* the cache entry of a profile: its index in the cache, 0 when it has none
CacheIndex(cache, name) ==
    IF \E n \in 1..Len(cache) : cache[n].profile = name
    THEN CHOOSE n \in 1..Len(cache) : cache[n].profile = name
    ELSE 0

Without(cache, n) == SubSeq(cache, 1, n - 1) \o SubSeq(cache, n + 1, Len(cache))

\* @lru_cache(maxsize=10) get_session(profile): a hit returns the cached
\* session and makes it the most recently used; a miss builds a session,
\* caches it and evicts the least recently used entry of a full cache
get_session(cache, name, fresh) ==
    LET n == CacheIndex(cache, name) IN
    IF n > 0
    THEN [session |-> cache[n].session,
          cache   |-> Append(Without(cache, n), cache[n])]
    ELSE LET grown == Append(cache, [profile |-> name, session |-> fresh]) IN
         [session |-> fresh,
          cache   |-> IF Len(grown) > maxsize THEN Tail(grown) ELSE grown]

\* session.client(service, config=...): botocore builds a client object on
\* every call
session_client(service, name, got, id) ==
    [service |-> service, profile |-> name, session |-> got.session, id |-> id]

ClientsFrame == UNCHANGED <<navVars, logVars, fmtVars, timeVars, s3Vars>>

InitClients == NavIdle /\ LogsIdle /\ FmtIdle /\ ClientsIdle /\ TimeIdle /\ S3Idle

get_client ==
    /\ Len(issued) < MaxRequests
    /\ \E service \in ClientServices, name \in ClientProfiles :
          LET got == get_session(sessions, name, SessionsBuilt(issued) + 1) IN
          /\ sessions' = got.cache
          /\ issued' = Append(issued, session_client(service, name, got, Len(issued) + 1))
    /\ ClientsFrame

NextClients == get_client

SpecClients == InitClients /\ [][NextClients]_vars

(***************************************************************************)
(* format_timestamp on the timestamps of events.                           *)
(***************************************************************************)
MaxZeros == 22

\* d followed by k digits, all 0 but the last: d * 10^k + last
RoundNumber(d, k, last) ==
    IF k = 0 THEN <<d>> ELSE <<d>> \o Zeros(k - 1) \o <<last>>

\* the timestamps tried: 0 (the default of a missing timestamp), round
\* numbers and their successors up to 9 * 10^22 + 1, the claim's
\* 1700000000000, 999999999999 and 1700000000; each positive and negative
TimestampDigits ==
    {RoundNumber(d, k, last) : d \in {1, 2, 9}, k \in 0..MaxZeros, last \in {0, 1}}
        \cup {<<1, 7>> \o Zeros(11), <<1, 7>> \o Zeros(8), [i \in 1..12 |-> 9]}

Timestamps ==
    {Zero} \cup {Number(neg, digits) : neg \in BOOLEAN, digits \in TimestampDigits}

TimeFrame == UNCHANGED <<navVars, logVars, fmtVars, cliVars, s3Vars>>

InitTime ==
    /\ NavIdle /\ LogsIdle /\ FmtIdle /\ ClientsIdle /\ S3Idle
    /\ timestamp \in Timestamps
    /\ stamp = NoStamp

Stamped(r) == [called |-> TRUE, kind |-> r.kind, value |-> r.value]

\* format_log_entry: timestamp = format_timestamp(event.get("timestamp", 0))
format_log_entry_timestamp ==
    /\ ~stamp.called
    /\ stamp' = Stamped(format_timestamp(timestamp))
    /\ UNCHANGED timestamp
    /\ TimeFrame

NextTime == format_log_entry_timestamp

SpecTime == InitTime /\ [][NextTime]_vars

(***************************************************************************)
(* commands/s3.py: the bucket browser (SpecS3). Keys and prefixes are      *)
(* sequences of characters; the buckets receive objects from other writers *)
(* while the browser runs.                                                 *)
(***************************************************************************)
MaxKeyLen == 3
MaxObjects == 2

Buckets == {"assets", "backups"}
KeyChars == {"a", "/"}
Keys == UNION {[1..n -> KeyChars] : n \in 1..MaxKeyLen}

\* os.listdir("."): the names of the files of the working directory
LocalFiles == {<<"a">>}

StartsWith(s, p) == Len(p) <= Len(s) /\ SubSeq(s, 1, Len(p)) = p
Has(s, c) == \E i \in 1..Len(s) : s[i] = c
First(s, c) == CHOOSE i \in 1..Len(s) : s[i] = c /\ \A j \in 1..(i - 1) : s[j] # c

\* list_objects_v2(Bucket, Prefix, Delimiter="/"): the keys under the prefix
\* whose rest holds the delimiter are rolled up into the common prefix that
\* ends at the first delimiter of the rest; the others are the contents
Rest(key, prefix) == SubSeq(key, Len(prefix) + 1, Len(key))
Under(bucket, prefix) ==
    {o.key : o \in {x \in objects : x.bucket = bucket /\ StartsWith(x.key, prefix)}}
RolledUp(key, prefix, rest) == prefix \o SubSeq(rest, 1, First(rest, "/"))
list_objects(bucket, prefix) ==
    [folders |-> {RolledUp(k, prefix, Rest(k, prefix)) :
                     k \in {u \in Under(bucket, prefix) : Has(Rest(u, prefix), "/")}},
     files   |-> {u \in Under(bucket, prefix) : ~Has(Rest(u, prefix), "/")}]

\* the values of the choices of "Navegar:"
DotDot == <<".", ".">>
UploadAction == <<"u","p","l","o","a","d","_","a","c","t","i","o","n">>
FolderTag == <<"f","o","l","d","e","r",":">>
FileTag == <<"f","i","l","e",":">>

\* a file whose name after the last "/" is empty is left out
Choices(content, prefix) ==
    {DotDot, UploadAction}
        \cup {FolderTag \o f : f \in content.folders}
        \cup {FileTag \o k : k \in {u \in content.files : Rest(u, prefix) # <<>>}}

\* selection.split(":", 1)[1]
AfterColon(s) == SubSeq(s, First(s, ":") + 1, Len(s))

\* s.rstrip("/")
RECURSIVE rstrip_slash(_)
rstrip_slash(s) ==
    IF s # <<>> /\ s[Len(s)] = "/" THEN rstrip_slash(SubSeq(s, 1, Len(s) - 1)) ELSE s

\* s.split("/")
RECURSIVE split(_)
split(s) ==
    IF Has(s, "/")
    THEN <<SubSeq(s, 1, First(s, "/") - 1)>> \o split(SubSeq(s, First(s, "/") + 1, Len(s)))
    ELSE <<s>>

\* "/".join(parts)
RECURSIVE join(_)
join(parts) ==
    IF parts = <<>> THEN <<>>
    ELSE IF Len(parts) = 1 THEN parts[1]
    ELSE parts[1] \o <<"/">> \o join(Tail(parts))

\* parts = current_prefix.rstrip("/").split("/"); "" when len(parts) <= 1,
\* else "/".join(parts[:-1]) + "/"
UpFrom(parts) ==
    IF Len(parts) <= 1 THEN <<>>
    ELSE join(SubSeq(parts, 1, Len(parts) - 1)) \o <<"/">>

Up(prefix) == UpFrom(split(rstrip_slash(prefix)))

S3Frame == UNCHANGED <<navVars, logVars, fmtVars, cliVars, timeVars>>

InitS3 ==
    /\ NavIdle /\ LogsIdle /\ FmtIdle /\ ClientsIdle /\ TimeIdle
    /\ buckets \in SUBSET Buckets
    /\ objects = {}
    /\ current_bucket = None
    /\ current_prefix = <<>>
    /\ display_path = NoPath
    /\ selection = <<>>
    /\ s3pc = "s3:buckets"

\* another writer puts an object into one of the buckets
put_object ==
    /\ s3pc \notin {"done", "crashed"}
    /\ Cardinality(objects) < MaxObjects
    /\ \E b \in buckets, k \in Keys :
          /\ [bucket |-> b, key |-> k] \notin objects
          /\ objects' = objects \cup {[bucket |-> b, key |-> k]}
    /\ UNCHANGED <<buckets, current_bucket, current_prefix, display_path, selection, s3pc>>
    /\ S3Frame

\* the pass at the bucket list: list_buckets is not wrapped; with no bucket
\* the browser returns; "exit" returns, a bucket is entered at its root
interactive_s3_browser_buckets ==
    /\ s3pc = "s3:buckets"
    /\ \E raised \in BOOLEAN :
          IF raised
          THEN s3pc' = "crashed" /\ UNCHANGED <<current_bucket, current_prefix>>
          ELSE IF buckets = {}
          THEN s3pc' = "done" /\ UNCHANGED <<current_bucket, current_prefix>>
          ELSE \E bucket \in buckets \cup {"exit"} :
                  IF bucket = "exit"
                  THEN s3pc' = "done" /\ UNCHANGED <<current_bucket, current_prefix>>
                  ELSE /\ current_bucket' = bucket
                       /\ current_prefix' = <<>>
                       /\ s3pc' = "s3:browse"
    /\ UNCHANGED <<buckets, objects, display_path, selection>>
    /\ S3Frame

\* the pass inside a bucket: the path is printed, list_objects is not
\* wrapped, the choices are built from the listing and the answer is handled
interactive_s3_browser_browse ==
    /\ s3pc = "s3:browse"
    /\ display_path' = [bucket |-> current_bucket, prefix |-> current_prefix]
    /\ \E raised \in BOOLEAN :
          IF raised
          THEN s3pc' = "crashed" /\ UNCHANGED <<current_bucket, current_prefix, selection>>
          ELSE \E answer \in Choices(list_objects(current_bucket, current_prefix),
                                     current_prefix) :
                  /\ selection' = answer
                  /\ IF answer = DotDot
                     THEN IF current_prefix = <<>>
                          THEN /\ current_bucket' = None
                               /\ s3pc' = "s3:buckets"
                               /\ UNCHANGED current_prefix
                          ELSE /\ current_prefix' = Up(current_prefix)
                               /\ UNCHANGED <<current_bucket, s3pc>>
                     ELSE IF answer = UploadAction
                     THEN s3pc' = "s3:upload" /\ UNCHANGED <<current_bucket, current_prefix>>
                     ELSE IF StartsWith(answer, FolderTag)
                     THEN /\ current_prefix' = AfterColon(answer)
                          /\ UNCHANGED <<current_bucket, s3pc>>
                     ELSE IF StartsWith(answer, FileTag)
                     THEN s3pc' = "s3:file" /\ UNCHANGED <<current_bucket, current_prefix>>
                     ELSE UNCHANGED <<current_bucket, current_prefix, s3pc>>
    /\ UNCHANGED <<buckets, objects>>
    /\ S3Frame

\* upload_file: with no local file, or on "Cancelar", nothing is sent; the
\* key is the prefix followed by the file's name; a failure is printed
upload_file ==
    /\ s3pc = "s3:upload"
    /\ \E local_files \in SUBSET LocalFiles :
       \E file_to_upload \in local_files \cup {<<>>} :
       \E raised \in BOOLEAN :
          LET key == current_prefix \o file_to_upload
              sent == file_to_upload # <<>> /\ ~raised IN
          /\ sent => /\ Len(key) <= MaxKeyLen
                      /\ \/ [bucket |-> current_bucket, key |-> key] \in objects
                         \/ Cardinality(objects) < MaxObjects
          /\ objects' = IF sent
                        THEN objects \cup {[bucket |-> current_bucket, key |-> key]}
                        ELSE objects
    /\ s3pc' = "s3:browse"
    /\ UNCHANGED <<buckets, current_bucket, current_prefix, display_path, selection>>
    /\ S3Frame

\* the file prompt: "download" runs download_file, whose failures are printed
interactive_s3_browser_file ==
    /\ s3pc = "s3:file"
    /\ \E action \in {"download", "cancel"} : s3pc' = "s3:browse"
    /\ UNCHANGED <<buckets, objects, current_bucket, current_prefix, display_path, selection>>
    /\ S3Frame

NextS3 ==
    \/ put_object
    \/ interactive_s3_browser_buckets
    \/ interactive_s3_browser_browse
    \/ upload_file
    \/ interactive_s3_browser_file

SpecS3 == InitS3 /\ [][NextS3]_vars

(***************************************************************************)
(* Properties of the run (Spec).                                           *)
(***************************************************************************)
DestructiveApis == {"stop_instances", "terminate_provisioned_product"}
MutatingApis == DestructiveApis \cup
    {"start_instances", "reboot_instances", "update_service", "provision_product",
     "create_route"}

\* C1: in the interactive session no failure of a provider call - list,
\* describe or mutating - ends the session: the run never ends on an
\* exception that nobody caught.
C1_NoProviderFailureEndsSession ==
    cmd = "wizard" => outcome # "crashed"

\* C2: stop_instances and terminate_provisioned_product are issued only after
\* the confirmation prompt was answered yes or, in a direct command, --yes was
\* passed; and once a confirmation is declined no mutating call is issued.
C2_DestructiveOnlyWhenConfirmed ==
    /\ lastCall.api \in DestructiveApis =>
          (loc.confirm = "yes" \/ (cmd # "wizard" /\ yes))
    /\ loc.confirm = "no" => lastCall.api \notin MutatingApis

\* C2 witness: the interactive stop was confirmed and stop_instances issued
C2_Witness ==
    /\ cmd = "wizard"
    /\ lastCall.api = "stop_instances"
    /\ loc.confirm = "yes"
    /\ pc = "ec2menu:pause"

\* C3: in the interactive terminate flow a retyped text that differs from the
\* product's name cancels the action: terminate_provisioned_product is neither
\* pending nor issued while the typed text differs from the name.
C3_MismatchCancelsTerminate ==
    cmd = "wizard" =>
        ((pc = "scterm:call" \/ lastCall.api = "terminate_provisioned_product")
            => loc.confirm_name = loc.selected_pp.name)

\* C3 witness: 'myapp-instnace' was typed for 'myapp-instance'; the action
\* returned to the pause without a provider call
C3_Witness ==
    /\ cmd = "wizard"
    /\ pc = "scmenu:pause"
    /\ loc.confirm = "yes"
    /\ loc.selected_pp.name = NameInstance
    /\ loc.confirm_name = NameTypo
    /\ lastCall = NoCall

\* C4: without --yes, terminate_provisioned_product is issued only after an
\* affirmative confirmation and an exact retype of the product's name, in the
\* interactive menu and in the direct "sc terminate" command.
C4_TerminateNeedsRetypeEverywhere ==
    (lastCall.api = "terminate_provisioned_product" /\ ~yes) =>
        (loc.confirm = "yes" /\ loc.confirm_name = loc.selected_pp.name)

\* C5: in a main-menu session every provider operation runs under a profile
\* for which ensure_sso_login returned True earlier; while no login has
\* succeeded no provider operation is performed, and a run that ends without
\* one ends with code 1.
C5_OperationsOnlyUnderValidatedProfile ==
    /\ (cmd = "wizard" /\ lastCall # NoCall) => lastCall.profile \in validated
    /\ validated = {} => lastCall = NoCall
    /\ (validated = {} /\ pc = "done") => outcome = "exit1"

(***************************************************************************)
(* Properties of the formatter (SpecFmt).                                  *)
(***************************************************************************)

\* C6: the level of every entry format_log_entry produces is one of ERROR,
\* WARN, INFO, DEBUG and TRACE.
C6_LevelIsOneOfFive ==
    (entry.called /\ ~entry.raised) => entry.level \in Levels

(***************************************************************************)
(* Properties of the log view (SpecLogs).                                  *)
(***************************************************************************)

\* the last max(n, 0) elements of s, all of s when it has no more than that
LastN(s, n) == SubSeq(s, Len(s) - Min(Len(s), Max(n, 0)) + 1, Len(s))

\* the events whose raw message holds the word, whatever the case
RawMatches(events, word) ==
    LET holds(e) == Contains(upper(e.message), upper(word))
    IN SelectSeq(events, holds)

\* C7: with no level filter and a tail N >= 1, a view whose fetch returned M
\* events displays exactly the last min(M, N) of them, in their order.
C7_DisplaysLastOfFetched ==
    (view.mode # "none" /\ ~view.failed /\ view.level_filter = <<>> /\ view.tail >= 1)
        => view.displayed = LastN(view.fetched, view.tail)

\* C8: a view that displays its events (no filter, tail N >= 1) displays the
\* N most recent events the log group holds in the window, however many
\* response pages they take.
C8_DisplaysMostRecentOfWindow ==
    (/\ view.mode # "none"
     /\ ~view.failed
     /\ ~view.error
     /\ view.level_filter = <<>>
     /\ view.tail >= 1)
        => view.displayed = LastN(window, view.tail)

\* C9: with a level filter, the view displays the last N of the fetched
\* events whose raw message holds the filter word, case ignored.
C9_FilterThenTail ==
    (view.mode # "none" /\ ~view.failed /\ view.level_filter # <<>>)
        => view.displayed = LastN(RawMatches(view.fetched, view.level_filter), view.tail)

\* C10: when the fetch fails, the view reports the error, displays no event
\* and lets no exception out.
C10_FetchFailureIsReported ==
    (view.mode # "none" /\ view.failed)
        => (view.error /\ view.displayed = <<>> /\ ~view.raised)

\* a failed fetch from the service menu over a log group that holds events
C10_Witness ==
    /\ view.mode = "interactive"
    /\ view.failed
    /\ view.error
    /\ view.displayed = <<>>
    /\ Len(window) = MaxEvents

(***************************************************************************)
(* Navigation: what a menu shows, and where back, exit and refresh lead.   *)
(***************************************************************************)
\* the prompt of each resource menu and the request that fetches its resource
MenuPrompts == {"ecsmenu:select", "ec2menu:select", "scmenu:select", "apigwmenu:select"}

FetchOf(menu) ==
    CASE menu = "ecsmenu:select"   -> {"describe_services"}
      [] menu = "ec2menu:select"   -> {"describe_instances"}
      [] menu = "scmenu:select"    -> {"describe_provisioned_product"}
      [] menu = "apigwmenu:select" -> {"get_api", "get_apis"}

\* C11: whenever a resource menu is rendered again after an action was chosen
\* in it, the step that rendered it fetched the resource from the provider.
C11_MenuShowsFreshState ==
    (pc \in MenuPrompts /\ loc.action # None) => lastCall.api \in FetchOf(pc)

\* the steps of the actions a resource menu offers
ActionSteps ==
    {"ecsexec:get_tasks", "ecsexec:run", "ecslogs:log_groups", "ecslogs:prompts",
     "ecslogs:fetch", "ecstasks:get_tasks", "ecsforce:confirm", "ecsforce:call",
     "ec2start:confirm", "ec2start:call", "ec2stop:confirm", "ec2stop:call",
     "ec2reboot:confirm", "ec2reboot:call",
     "scterm:confirm", "scterm:retype", "scterm:call",
     "apigw:list_routes", "apigwcreate:path", "apigwcreate:method",
     "apigwcreate:confirm", "apigwcreate:call"}

\* where a resource menu is rendered: its fetch, then its prompt
MenuRenders == MenuPrompts \cup {"ecsmenu:load", "ec2menu:load", "scmenu:load"}

\* the prompt that lists the resources a menu is entered from
ListPromptOf(menu) ==
    CASE menu = "ecsmenu:select" -> {"ecs:list_services", "ecs:select_service"}
      [] menu = "ec2menu:select" -> {"ec2:list_instances", "ec2:select_instance"}
      [] menu = "scmenu:select"  -> {"sc:list_provisioned", "sc:select_provisioned"}
      [] menu = "apigwmenu:select" -> {"apigw:list_apis", "apigw:select_api"}

\* C12: a step that takes "back" in the ECS, EC2 or Service Catalog resource
\* menu leads to the list of the resources the menu was entered from.
C12_BackReturnsToResourceList ==
    [][(pc \in MenuPrompts /\ lastCall' = NoCall /\ loc'.result = "back")
          => pc' \in ListPromptOf(pc)]_vars

\* "exit" was taken by this step, in the main menu or in a resource menu
ExitChosen ==
    /\ pc \in MenuPrompts \cup {"main:menu"}
    /\ loc'.action = "exit"

\* C13: a step that takes "exit", in the main menu or in any resource menu,
\* ends the run with code 0 and issues no provider call; and no step is ever
\* taken after the run has ended (no prompt, no provider call).
C13_ExitEndsTheSession ==
    [][/\ pc # "done"
       /\ ExitChosen => (pc' = "done" /\ outcome' = "exit0" /\ lastCall' = NoCall)]_vars

\* "exit" taken in the menu of a running EC2 instance: three loops deep
C13_Witness ==
    /\ pc = "done"
    /\ loc.result = "exit"
    /\ loc.instance # None
    /\ outcome = "exit0"

\* the resource a menu is open on
Selection(l) == <<l.cluster, l.service, l.instance, l.selected_pp>>

LoadOf(menu) ==
    CASE menu = "ecsmenu:select" -> "ecsmenu:load"
      [] menu = "ec2menu:select" -> "ec2menu:load"
      [] menu = "scmenu:select"  -> "scmenu:load"
      [] menu = "apigwmenu:select" -> "apigwmenu:select"

Cancellations == {"apigwcreate:path", "apigwcreate:method", "apigwcreate:confirm"}

C16_DeclinedExitsWithOne ==
    (cmd # "wizard" /\ pc = "done" /\ ~yes /\ loc.confirm = "no") => outcome = "exit1"

(***************************************************************************)
(* The client factory.                                                     *)
(***************************************************************************)
\* C17: two requests for a client of the same service under the same profile
\* return the same handle: the second constructs nothing.
C17_OneHandlePerProfile ==
    \A m, n \in 1..Len(issued) :
        (issued[m].service = issued[n].service /\ issued[m].profile = issued[n].profile)
            => issued[m].id = issued[n].id

(***************************************************************************)
(* The formatter on JSON-bearing messages.                                 *)
(***************************************************************************)
\* C18: parse_json_log returns to its caller for every message: whatever the
\* text between the first "{" and the last "}", it raises nothing.
C18_ParseNeverRaises ==
    entry.called => ~parse_json_log(message).raised

\* C19: format_log_entry returns an entry for every event: whatever the
\* message and the JSON in it, it raises nothing.
C19_FormatCannotFail ==
    entry.called => ~entry.raised

\* C20: when the JSON of the message parses and has a "level" member, the
\* entry returned carries that member's value in upper case as its level and
\* the parsed object as its json_data.
C20_JsonLevelOverrides ==
    (entry.called /\ HasLevel(parse_json_log(message)))
        => /\ ~entry.raised
           /\ entry.level = upper(GetKey(parse_json_log(message).data, S_level).s)
           /\ entry.json_data = parse_json_log(message)

(***************************************************************************)
(* The level heuristics.                                                   *)
(***************************************************************************)
\* the words pattern n captures at any position of s, in upper case
Captured(s, n) ==
    {upper(PatternAt(s, i, n).group) : i \in {j \in 1..Len(s) : PatternAt(s, j, n).found}}

\* WARNING is to be read as WARN
Normalized(level) == IF level = S_WARNING THEN S_WARN ELSE level

\* C21: for a message with no "level" or "severity" field that holds a known
\* level in brackets somewhere, extract_log_level returns a level that stands
\* in brackets in the message (WARNING and WARN taken as one).
C21_BracketedLevelWins ==
    (/\ entry.called
     /\ Captured(message, 1) \cup Captured(message, 2) = {}
     /\ Captured(message, 3) \cap LEVEL_COLORS # {})
        => Normalized(extract_log_level(message))
              \in {Normalized(w) : w \in Captured(message, 3) \cap LEVEL_COLORS}

\* C22: extract_log_level never returns WARNING.
C22_WarningBecomesWarn ==
    entry.called => extract_log_level(message) # S_WARNING

\* no pattern yields a known level: the leftmost match of each, if it has one,
\* captures a word that is no key of LEVEL_COLORS
NoPatternYields(s) ==
    \A n \in 1..NumPatterns :
        PatternSearch(s, n).found => upper(PatternSearch(s, n).group) \notin LEVEL_COLORS

\* C23: when no pattern yields a known level, extract_log_level returns ERROR
\* if the message in upper case contains ERROR, EXCEPTION or FAILED, else
\* WARN if it contains WARN, else INFO.
C23_FallbackKeywordScan ==
    (entry.called /\ NoPatternYields(message))
        => extract_log_level(message) =
              IF \/ Contains(upper(message), S_ERROR)
                 \/ Contains(upper(message), S_EXCEPTION)
                 \/ Contains(upper(message), S_FAILED)
              THEN S_ERROR
              ELSE IF Contains(upper(message), S_WARN) THEN S_WARN ELSE S_INFO

\* a message that holds both FAILED and WARN and no level word of its own
C23_Witness ==
    /\ entry.called
    /\ NoPatternYields(message)
    /\ Contains(upper(message), S_FAILED)
    /\ Contains(upper(message), S_WARN)
    /\ entry.level = S_ERROR

(***************************************************************************)
(* Timestamps.                                                             *)
(***************************************************************************)
\* C24: the value format_timestamp converts is the timestamp divided by 1000
\* when the timestamp is strictly greater than 10^12, and the timestamp
\* itself when it is less than or equal to 10^12.
C24_MillisecondsOverThreshold ==
    stamp.called =>
        IF ~timestamp.neg /\ Greater(timestamp.digits, <<1>> \o Zeros(12))
        THEN /\ stamp.value.digits \o stamp.value.frac = timestamp.digits
             /\ Len(stamp.value.frac) = 3
        ELSE stamp.value = timestamp

\* 1700000000000 is converted as 1700000000 seconds
C24_Witness ==
    /\ stamp.called
    /\ timestamp = Number(FALSE, <<1, 7>> \o Zeros(11))
    /\ stamp.kind = "date"
    /\ stamp.value.digits = <<1, 7>> \o Zeros(8)

(***************************************************************************)
(* The EC2 instance menu and the state it fetched.                         *)
(***************************************************************************)
\* C25: in the EC2 instance menu a start_instances request is issued only
\* when the state the menu fetched last is "stopped", a stop_instances or
\* reboot_instances request only when it is "running"; from the prompt of a
\* menu that fetched any other state the only ways on are refresh, back and
\* exit.
C25_ActionsFollowFetchedState ==
    [][/\ (cmd = "wizard" /\ lastCall'.api = "start_instances") => loc.state = "stopped"
       /\ (cmd = "wizard" /\ lastCall'.api \in {"stop_instances", "reboot_instances"})
             => loc.state = "running"
       /\ (pc = "ec2menu:select" /\ loc.state \notin {"stopped", "running"})
             => /\ pc' \in {"ec2menu:load", "ec2:filter", "done"}
                /\ loc'.action \in {"refresh", "exit"} \/ loc'.result = "back"]_vars

\* a stopped instance was started from its menu
C25_Witness ==
    /\ cmd = "wizard"
    /\ pc = "ec2menu:pause"
    /\ lastCall.api = "start_instances"
    /\ loc.state = "stopped"

(***************************************************************************)
(* Switching the profile.                                                  *)
(***************************************************************************)
\* C26: a "switch profile" step leaves the session running at the main menu;
\* it changes the active profile only to the profile just selected and only
\* when the login check of that profile has returned true, and leaves it as
\* it was when nothing was selected; and the clients of every wizard entered
\* afterwards are built for the active profile, whose login was checked.
C26_SwitchKeepsAValidatedProfile ==
    /\ [](client # None => (client = selected_profile /\ client \in validated))
    /\ [][pc = "main:switch"
            => /\ pc' = "main:menu"
               /\ outcome' = "running"
               /\ selected_profile' # selected_profile
                     => /\ selected_profile' = loc'.new_profile
                        /\ selected_profile' \in validated'
               /\ loc'.new_profile = None => selected_profile' = selected_profile]_vars

\* another profile was selected, its login failed, and the session goes on
\* under the profile it had
C26_Witness ==
    /\ pc = "main:menu"
    /\ loc.new_profile \notin {None, selected_profile}
    /\ loc.new_profile \notin validated
    /\ selected_profile \in validated
    /\ outcome = "running"

\* C27: every provider operation of a main-menu session is issued under the
\* session's selected profile, "aws ecs execute-command" included.
C27_OperationsUnderSelectedProfile ==
    (cmd = "wizard" /\ lastCall # NoCall) => lastCall.profile = selected_profile

(***************************************************************************)
(* The labels of the ECS service menu.                                     *)
(***************************************************************************)
\* the action a label of the service menu announces
Announces(name) ==
    CASE name = "Conectar no Container (Shell)"           -> "exec"
      [] name = "Ver Logs"                                -> "logs"
      [] name = "Ver Tasks em detalhe"                    -> "tasks"
      [] name = "Forcar nova Task (deploy)"               -> "force"
      [] name = "Forcar nova Task (deploy) [RECOMENDADO]" -> "force"
      [] name = "Atualizar informacoes"                   -> "refresh"
      [] name = "Voltar (escolher outro service)"         -> "back"
      [] name = "Sair"                                    -> "exit"
      [] OTHER                                            -> None

Recommended(name) == name = "Forcar nova Task (deploy) [RECOMENDADO]"

\* the first step of each action of the service menu
EcsActionEntries ==
    {"ecsexec:get_tasks", "ecslogs:log_groups", "ecstasks:get_tasks", "ecsforce:confirm"}

\* C28: in the ECS service menu every entry's label announces the action the
\* entry runs, and the action entered is the one the picked label announces;
\* with no running task exactly one entry announces the force deploy, it is
\* the recommended one and it runs the force deploy (which starts with its
\* confirmation), and "view tasks" keeps its own label.
C28_LabelsMatchActions ==
    /\ pc = "ecsmenu:select"
          => LET menu == EcsMenuActions(loc.tasks) IN
             /\ \A i \in DOMAIN menu : Announces(menu[i].name) = menu[i].value
             /\ loc.tasks = "empty"
                   => /\ Cardinality({i \in DOMAIN menu : Announces(menu[i].name) = "force"}) = 1
                      /\ \A i \in DOMAIN menu : Recommended(menu[i].name) <=> menu[i].value = "force"
    /\ pc \in EcsActionEntries => Announces(loc.label) = loc.action
    /\ (pc = "ecsforce:confirm" /\ loc.tasks = "empty") => Recommended(loc.label)

(***************************************************************************)
(* The tail of the direct log view.                                        *)
(***************************************************************************)
IsSuffix(s, t) == Len(s) <= Len(t) /\ s = SubSeq(t, Len(t) - Len(s) + 1, Len(t))

\* C29: for every --tail N that "ecs logs" accepts, zero and negative values
\* included, the view displays at most max(N, 0) events, and what it displays
\* is a suffix of the filtered list of fetched events.
C29_TailBoundsTheDisplay ==
    (view.mode = "direct" /\ ~view.failed)
        => /\ Len(view.displayed) <= Max(view.tail, 0)
           /\ IsSuffix(view.displayed, RawMatches(view.fetched, view.level_filter))

(***************************************************************************)
(* Moving through a bucket (SpecS3).                                       *)
(***************************************************************************)
\* a pass of the browser in which ".." was chosen
WentUp == interactive_s3_browser_browse /\ s3pc' # "crashed" /\ selection' = DotDot

\* C30: ".." right after a folder was entered leads back to the prefix the
\* folder was entered from, in the same bucket; ".." at the empty prefix
\* leads to the bucket list; the prefix is always empty or ends with "/".
C30_UpUndoesEnter ==
    /\ [](current_prefix = <<>> \/ current_prefix[Len(current_prefix)] = "/")
    /\ [][/\ (WentUp /\ StartsWith(selection, FolderTag))
               => /\ current_prefix' = display_path.prefix
                  /\ current_bucket' = current_bucket
          /\ (WentUp /\ current_prefix = <<>>)
               => /\ current_bucket' = None
                  /\ s3pc' = "s3:buckets"]_vars

====
